---- MODULE Spec2Model ----
(***************************************************************************)
(* omniclip: the pairing handshake, its QR descriptor, the session-key     *)
(* derivation and the SyncServer connection handlers, as a state machine.  *)
(*                                                                         *)
(* Texts (Rust String / &str) are sequences of UTF-8 bytes, each a number  *)
(* in 0..255; a URL is such a sequence too.                                *)
(***************************************************************************)
EXTENDS Integers, Sequences, FiniteSets, TLC

(***************************************************************************)
(* Bounds of the model.                                                    *)
(***************************************************************************)
\* connections the accept loop accepts in one run
MaxConns == 2
\* start_pairing calls in one run
MaxSessions == 2
\* characters of the address and name texts the descriptor tests draw
MaxTextLen == 3
\* hex digits of a Uuid's text form (the crate's is 32, hyphenated)
UuidHexLen == 4
\* bytes of an X25519 public key (the crate's is 32; 2 keeps 32's remainder mod 3)
KeyLen == 2
\* parameters with other keys added to one URL
MaxUnknown == 2
\* bytes of a nonce (the crate's is 12; 3 encodes without padding, as 12 does)
NonceLen == 3
\* events put into the server's channel in one run
MaxEvents == 3
\* the longest string of a clipboard content that is hashed
MaxHashLen == 2
\* how many clipboard changes the monitor delivers
MaxChanges == 2

(***************************************************************************)
(* Program constants.                                                      *)
(***************************************************************************)
DEFAULT_PORT == 17394
\* capacity of the SyncEvent channel, mpsc::channel(64)
SyncChannelCap == 64
\* mpsc::channel(64) of OmniclipService::start: the ServiceEvent channel
ServiceChannelCap == 64

None == <<>>
Some(x) == <<x>>

Ok(v) == [ok |-> TRUE, val |-> v]
Err(kind, detail) == [ok |-> FALSE, kind |-> kind, detail |-> detail]

(***************************************************************************)
(* Bytes of the ASCII characters the code names.                           *)
(***************************************************************************)
Ch == [c \in {"%", "&", "+", "-", ".", "/", ":", "=", "?", "_", "~", "{", "}", " ",
               "\"", "\\", ","} |->
        CASE c = "%" -> 37 [] c = "&" -> 38 [] c = "+" -> 43 [] c = "-" -> 45
          [] c = "." -> 46 [] c = "/" -> 47 [] c = ":" -> 58 [] c = "=" -> 61
          [] c = "?" -> 63 [] c = "_" -> 95 [] c = "~" -> 126 [] c = "{" -> 123
          [] c = "}" -> 125 [] c = " " -> 32 [] c = "\"" -> 34 [] c = "\\" -> 92
          [] c = "," -> 44]

Lower == <<"a","b","c","d","e","f","g","h","i","j","k","l","m",
           "n","o","p","q","r","s","t","u","v","w","x","y","z">>

\* the byte of a lower-case letter
L(c) == 96 + (CHOOSE i \in 1..26 : Lower[i] = c)

IsDigit(b) == b \in 48..57
IsUpper(b) == b \in 65..90
IsLower(b) == b \in 97..122

RECURSIVE Reverse(_)
Reverse(s) == IF s = <<>> THEN <<>> ELSE Reverse(Tail(s)) \o <<Head(s)>>

StartsWith(s, p) == Len(s) >= Len(p) /\ SubSeq(s, 1, Len(p)) = p
Drop(s, n) == SubSeq(s, n + 1, Len(s))

\* the index of the first b in s, 0 when there is none
RECURSIVE FindFrom(_, _, _)
FindFrom(s, b, i) ==
    IF i > Len(s) THEN 0
    ELSE IF s[i] = b THEN i
    ELSE FindFrom(s, b, i + 1)

Find(s, b) == FindFrom(s, b, 1)

\* str::split: the pieces of s between the occurrences of b (never empty as a list)
RECURSIVE Split(_, _)
Split(s, b) ==
    LET i == Find(s, b)
    IN  IF i = 0 THEN <<s>>
        ELSE <<SubSeq(s, 1, i - 1)>> \o Split(Drop(s, i), b)

(***************************************************************************)
(* Hexadecimal and decimal text.                                           *)
(***************************************************************************)
HexLower(n) == IF n < 10 THEN 48 + n ELSE 87 + n
HexUpper(n) == IF n < 10 THEN 48 + n ELSE 55 + n

\* the value of a hex digit, -1 for any other byte
HexVal(b) ==
    IF b \in 48..57 THEN b - 48
    ELSE IF b \in 65..70 THEN b - 55
    ELSE IF b \in 97..102 THEN b - 87
    ELSE -1

\* n as exactly w lower-case hex digits
RECURSIVE HexFixed(_, _)
HexFixed(n, w) ==
    IF w = 0 THEN <<>>
    ELSE HexFixed(n \div 16, w - 1) \o <<HexLower(n % 16)>>

\* the value of a run of hex digits, -1 when a byte is no hex digit
RECURSIVE HexParse(_, _)
HexParse(s, acc) ==
    IF s = <<>> THEN acc
    ELSE IF HexVal(s[1]) < 0 THEN -1
    ELSE HexParse(Tail(s), acc * 16 + HexVal(s[1]))

\* Display of an unsigned integer: decimal, no leading zeros
RECURSIVE DecFormat(_)
DecFormat(n) ==
    IF n < 10 THEN <<48 + n>>
    ELSE DecFormat(n \div 10) \o <<48 + (n % 10)>>

\* the value of a run of decimal digits, -1 on a non-digit or once max is passed
RECURSIVE DecParse(_, _, _)
DecParse(s, acc, max) ==
    IF s = <<>> THEN acc
    ELSE IF ~IsDigit(s[1]) THEN -1
    ELSE IF acc * 10 + (s[1] - 48) > max THEN -1
    ELSE DecParse(Tail(s), acc * 10 + (s[1] - 48), max)

U16_MAX == 65535

\* a variant of the u16 parse: digits of any value, kept modulo 2^16
ParseU16Wrapping(s) ==
    LET digits == IF s # <<>> /\ s[1] = Ch["+"] THEN Tail(s) ELSE s
        v == DecParse(digits, 0, 99 * U16_MAX)
    IN  IF digits = <<>> \/ v < 0 THEN None ELSE Some(v % (U16_MAX + 1))

\* <u16 as FromStr>::from_str: an optional '+', then one or more digits, no overflow
ParseU16(s) ==
    LET digits == IF s # <<>> /\ s[1] = Ch["+"] THEN Tail(s) ELSE s
        v == DecParse(digits, 0, U16_MAX)
    IN  IF digits = <<>> \/ v < 0 THEN None ELSE Some(v)

(***************************************************************************)
(* UTF-8: String::from_utf8 accepts exactly the well-formed sequences.     *)
(***************************************************************************)
IsCont(b) == b \in 128..191

\* the length of the well-formed UTF-8 character s starts with, 0 when there is none
Utf8CharLen(s) ==
    LET b == s[1]
    IN  IF b < 128 THEN 1
        ELSE IF b \in 194..223
            THEN IF Len(s) >= 2 /\ IsCont(s[2]) THEN 2 ELSE 0
        ELSE IF b \in 224..239
            THEN IF /\ Len(s) >= 3
                    /\ IsCont(s[2]) /\ IsCont(s[3])
                    /\ (b = 224 => s[2] >= 160)
                    /\ (b = 237 => s[2] <= 159)
                 THEN 3 ELSE 0
        ELSE IF b \in 240..244
            THEN IF /\ Len(s) >= 4
                    /\ IsCont(s[2]) /\ IsCont(s[3]) /\ IsCont(s[4])
                    /\ (b = 240 => s[2] >= 144)
                    /\ (b = 244 => s[2] <= 143)
                 THEN 4 ELSE 0
        ELSE 0

RECURSIVE ValidUtf8(_)
ValidUtf8(s) ==
    IF s = <<>> THEN TRUE
    ELSE LET n == Utf8CharLen(s)
         IN  n > 0 /\ ValidUtf8(Drop(s, n))

(***************************************************************************)
(* urlencoding::encode / urlencoding::decode.                              *)
(***************************************************************************)
\* the bytes encode leaves as they are: A-Z a-z 0-9 - _ . ~
Unreserved(b) ==
    \/ IsDigit(b) \/ IsUpper(b) \/ IsLower(b)
    \/ b \in {Ch["-"], Ch["_"], Ch["."], Ch["~"]}

\* a variant of encode: form encoding, a space becomes '+'
RECURSIVE UrlEncodeForm(_)
UrlEncodeForm(s) ==
    IF s = <<>> THEN <<>>
    ELSE (IF s[1] = Ch[" "] THEN <<Ch["+"]>>
          ELSE IF Unreserved(s[1]) THEN <<s[1]>>
          ELSE <<Ch["%"], HexUpper(s[1] \div 16), HexUpper(s[1] % 16)>>)
         \o UrlEncodeForm(Tail(s))

RECURSIVE UrlEncode(_)
UrlEncode(s) ==
    IF s = <<>> THEN <<>>
    ELSE (IF Unreserved(s[1]) THEN <<s[1]>>
          ELSE <<Ch["%"], HexUpper(s[1] \div 16), HexUpper(s[1] % 16)>>)
         \o UrlEncode(Tail(s))

\* decode_binary: %XX becomes one byte; a '%' not followed by two hex digits stays
RECURSIVE UrlDecodeBinary(_)
UrlDecodeBinary(s) ==
    IF s = <<>> THEN <<>>
    ELSE IF s[1] # Ch["%"] THEN <<s[1]>> \o UrlDecodeBinary(Tail(s))
    ELSE IF Len(s) < 3 THEN s
    ELSE IF HexVal(s[2]) < 0 THEN <<Ch["%"]>> \o UrlDecodeBinary(Tail(s))
    ELSE IF HexVal(s[3]) < 0 THEN <<Ch["%"], s[2]>> \o UrlDecodeBinary(Drop(s, 2))
    ELSE <<HexVal(s[2]) * 16 + HexVal(s[3])>> \o UrlDecodeBinary(Drop(s, 3))

\* decode: the decoded bytes when they are UTF-8, else None (FromUtf8Error)
UrlDecode(s) ==
    LET d == UrlDecodeBinary(s)
    IN  IF ValidUtf8(d) THEN Some(d) ELSE None

(***************************************************************************)
(* base64 URL_SAFE_NO_PAD: alphabet A-Z a-z 0-9 - _, no padding, and a     *)
(* decoder that refuses padding, stray symbols and non-zero trailing bits. *)
(***************************************************************************)
B64Char(v) ==
    IF v < 26 THEN 65 + v
    ELSE IF v < 52 THEN 97 + (v - 26)
    ELSE IF v < 62 THEN 48 + (v - 52)
    ELSE IF v = 62 THEN Ch["-"]
    ELSE Ch["_"]

\* the six bits of a symbol, -1 for a byte outside the alphabet
B64Val(b) ==
    IF IsUpper(b) THEN b - 65
    ELSE IF IsLower(b) THEN b - 97 + 26
    ELSE IF IsDigit(b) THEN b - 48 + 52
    ELSE IF b = Ch["-"] THEN 62
    ELSE IF b = Ch["_"] THEN 63
    ELSE -1

RECURSIVE Base64UrlEncode(_)
Base64UrlEncode(b) ==
    IF Len(b) = 0 THEN <<>>
    ELSE IF Len(b) = 1
        THEN <<B64Char(b[1] \div 4), B64Char((b[1] % 4) * 16)>>
    ELSE IF Len(b) = 2
        THEN <<B64Char(b[1] \div 4),
               B64Char((b[1] % 4) * 16 + b[2] \div 16),
               B64Char((b[2] % 16) * 4)>>
    ELSE <<B64Char(b[1] \div 4),
           B64Char((b[1] % 4) * 16 + b[2] \div 16),
           B64Char((b[2] % 16) * 4 + b[3] \div 64),
           B64Char(b[3] % 64)>> \o Base64UrlEncode(Drop(b, 3))

\* the decoded bytes, None on any DecodeError
RECURSIVE Base64UrlDecode(_)
Base64UrlDecode(s) ==
    IF Len(s) = 0 THEN Some(<<>>)
    ELSE IF \E i \in 1..(IF Len(s) < 4 THEN Len(s) ELSE 4) : B64Val(s[i]) < 0 THEN None
    ELSE IF Len(s) = 1 THEN None
    ELSE IF Len(s) = 2
        THEN IF B64Val(s[2]) % 16 # 0 THEN None
             ELSE Some(<<B64Val(s[1]) * 4 + B64Val(s[2]) \div 16>>)
    ELSE IF Len(s) = 3
        THEN IF B64Val(s[3]) % 4 # 0 THEN None
             ELSE Some(<<B64Val(s[1]) * 4 + B64Val(s[2]) \div 16,
                         (B64Val(s[2]) % 16) * 16 + B64Val(s[3]) \div 4>>)
    ELSE LET rest == Base64UrlDecode(Drop(s, 4))
         IN  IF rest = None THEN None
             ELSE Some(<<B64Val(s[1]) * 4 + B64Val(s[2]) \div 16,
                         (B64Val(s[2]) % 16) * 16 + B64Val(s[3]) \div 4,
                         (B64Val(s[3]) % 4) * 64 + B64Val(s[4])>> \o rest[1])

(***************************************************************************)
(* Uuid: a number below 16^UuidHexLen.  Display is the hyphenated lower-   *)
(* case form (one hyphen here, after the first half of the digits);        *)
(* parse_str takes the simple, hyphenated, braced and urn:uuid: forms, in  *)
(* either case.                                                            *)
(***************************************************************************)
UuidHalf == UuidHexLen \div 2

UuidFormat(u) ==
    LET h == HexFixed(u, UuidHexLen)
    IN  SubSeq(h, 1, UuidHalf) \o <<Ch["-"]>> \o Drop(h, UuidHalf)

UrnPrefix == <<L("u"), L("r"), L("n"), Ch[":"], L("u"), L("u"), L("i"), L("d"), Ch[":"]>>

UuidParseHyphenated(s) ==
    IF Len(s) = UuidHexLen + 1 /\ s[UuidHalf + 1] = Ch["-"]
    THEN LET v == HexParse(SubSeq(s, 1, UuidHalf) \o Drop(s, UuidHalf + 1), 0)
         IN  IF v < 0 THEN None ELSE Some(v)
    ELSE None

UuidParseStr(s) ==
    IF Len(s) = UuidHexLen
        THEN LET v == HexParse(s, 0) IN IF v < 0 THEN None ELSE Some(v)
    ELSE IF Len(s) = UuidHexLen + 1 THEN UuidParseHyphenated(s)
    ELSE IF Len(s) = UuidHexLen + 3 /\ s[1] = Ch["{"] /\ s[Len(s)] = Ch["}"]
        THEN UuidParseHyphenated(SubSeq(s, 2, Len(s) - 1))
    ELSE IF StartsWith(s, UrnPrefix) THEN UuidParseHyphenated(Drop(s, Len(UrnPrefix)))
    ELSE None

(***************************************************************************)
(* Key exchange (x25519_dalek) as Diffie-Hellman in the multiplicative     *)
(* group modulo a small prime: a public key is DhG^secret, the shared      *)
(* secret is their_public^secret.                                          *)
(***************************************************************************)
DhP == 23
DhG == 5

\* b^e modulo DhP
RECURSIVE ModPow(_, _)
ModPow(b, e) == IF e = 0 THEN 1 ELSE (b * ModPow(b, e - 1)) % DhP

\* EphemeralSecret::public_key
PublicKeyOf(secret) == ModPow(DhG, secret)

\* EphemeralSecret::diffie_hellman
DiffieHellman(secret, their_public) == ModPow(their_public, secret)

\* n as w bytes, least significant first
RECURSIVE LeBytes(_, _)
LeBytes(n, w) == IF w = 0 THEN <<>> ELSE <<n % 256>> \o LeBytes(n \div 256, w - 1)

\* PublicKey::to_bytes
PublicKeyToBytes(pk) == LeBytes(pk, KeyLen)

(***************************************************************************)
(* SHA-256 and AES-256-GCM are ideal: a digest stands for its input, a     *)
(* ciphertext body for (key, nonce, plaintext) and a tag for (key, nonce,  *)
(* body), so that no two inputs collide and no tag can be forged.          *)
(***************************************************************************)
SESSION_KEY_INFO == "omniclip-session-key"

Sha256(parts) == [sha256 |-> parts]

\* SessionKey::from_shared_secret: SHA256(shared_secret || SESSION_KEY_INFO)
FromSharedSecret(shared) == Sha256(<<shared, SESSION_KEY_INFO>>)

GcmBody(key, nonce, plaintext) == [key |-> key, nonce |-> nonce, pt |-> plaintext]
GcmTag(key, nonce, body) == [key |-> key, nonce |-> nonce, body |-> body]

\* Aes256Gcm::encrypt: the body with its authentication tag
Aes256GcmEncrypt(key, nonce, plaintext) ==
    LET body == GcmBody(key, nonce, plaintext)
    IN  [body |-> body, tag |-> GcmTag(key, nonce, body)]

\* bytes that are no plaintext of the model
Noise == <<-1>>

\* what the counter mode yields for a body: its plaintext under the right key and
\* nonce, noise under any other
GcmUnmask(key, nonce, body) ==
    IF body.key = key /\ body.nonce = nonce THEN body.pt ELSE Noise

\* Aes256Gcm::decrypt: the plaintext when the tag verifies, else None (aead::Error)
Aes256GcmDecrypt(key, nonce, ciphertext) ==
    IF ciphertext.tag = GcmTag(key, nonce, ciphertext.body)
    THEN Some(GcmUnmask(key, nonce, ciphertext.body))
    ELSE None

\* SessionKey::encrypt, with the nonce thread_rng drew
SessionKeyEncrypt(key, nonce, plaintext) ==
    Ok([nonce |-> nonce, ciphertext |-> Aes256GcmEncrypt(key, nonce, plaintext)])

\* a variant of decrypt: the body is unmasked whatever the tag
SessionKeyDecryptUnchecked(key, payload) ==
    Ok(GcmUnmask(key, payload.nonce, payload.ciphertext.body))

\* SessionKey::decrypt
SessionKeyDecrypt(key, payload) ==
    LET r == Aes256GcmDecrypt(key, payload.nonce, payload.ciphertext)
    IN  IF r = None THEN Err("Crypto", "decryption failed") ELSE Ok(r[1])

(***************************************************************************)
(* PairingSession and PairingQrData.                                       *)
(***************************************************************************)
\* PairingSession::new, with the Uuid and the secret the generators drew
NewPairingSession(id, secret) ==
    [session_id |-> id, ephemeral_secret |-> secret, ephemeral_public |-> PublicKeyOf(secret)]

\* a variant of qr_data: the default port in place of the configured one
QrDataDefaultPort(session, local_ip, port, device_name) ==
    [session_id |-> session.session_id,
     pubkey |-> PublicKeyToBytes(session.ephemeral_public),
     ip |-> local_ip,
     port |-> DEFAULT_PORT,
     name |-> device_name]

\* PairingSession::qr_data
QrData(session, local_ip, port, device_name) ==
    [session_id |-> session.session_id,
     pubkey |-> PublicKeyToBytes(session.ephemeral_public),
     ip |-> local_ip,
     port |-> port,
     name |-> device_name]

\* a variant of complete: the session's own public key in place of the peer's
CompleteWithOwnKey(session, peer_pubkey) ==
    FromSharedSecret(DiffieHellman(session.ephemeral_secret, session.ephemeral_public))

\* PairingSession::complete
Complete(session, peer_pubkey) ==
    FromSharedSecret(DiffieHellman(session.ephemeral_secret, peer_pubkey))

\* "omniclip://pair?"
UrlPrefix ==
    <<L("o"), L("m"), L("n"), L("i"), L("c"), L("l"), L("i"), L("p"),
      Ch[":"], Ch["/"], Ch["/"], L("p"), L("a"), L("i"), L("r"), Ch["?"]>>

\* PairingQrData::to_url
ToUrl(d) ==
    UrlPrefix
    \o <<L("s"), Ch["="]>> \o UuidFormat(d.session_id)
    \o <<Ch["&"], L("k"), Ch["="]>> \o Base64UrlEncode(d.pubkey)
    \o <<Ch["&"], L("h"), Ch["="]>> \o UrlEncode(d.ip)
    \o <<Ch["&"], L("p"), Ch["="]>> \o DecFormat(d.port)
    \o <<Ch["&"], L("n"), Ch["="]>> \o UrlEncode(d.name)

InvalidMessage(detail) == Err("InvalidMessage", detail)

NoFields == [session_id |-> None, pubkey |-> None, ip |-> None, port |-> None, name |-> None]

\* a variant of the last arm: a key that is none of the five is an error
OtherKeyRejected(part, acc) == InvalidMessage("unknown param")

\* the last arm of from_url's match on the key, `_ => {}`
OtherKey(part, acc) == Ok(acc)

\* one turn of from_url's loop: the fields after `part`, or the error it returns
ParsePart(part, acc) ==
    LET i == Find(part, Ch["="])
        key == SubSeq(part, 1, i - 1)
        value == Drop(part, i)
    IN  IF i = 0 THEN InvalidMessage("invalid param")
        ELSE IF key = <<L("s")>> THEN
            LET u == UuidParseStr(value)
            IN  IF u = None THEN InvalidMessage("invalid session id")
                ELSE Ok([acc EXCEPT !.session_id = u])
        ELSE IF key = <<L("k")>> THEN
            LET b == Base64UrlDecode(value)
            IN  IF b = None THEN InvalidMessage("invalid pubkey")
                ELSE IF Len(b[1]) # KeyLen THEN InvalidMessage("invalid pubkey length")
                ELSE Ok([acc EXCEPT !.pubkey = b])
        ELSE IF key = <<L("h")>> THEN
            LET t == UrlDecode(value)
            IN  IF t = None THEN InvalidMessage("invalid ip")
                ELSE Ok([acc EXCEPT !.ip = t])
        ELSE IF key = <<L("p")>> THEN
            LET n == ParseU16(value)
            IN  IF n = None THEN InvalidMessage("invalid port")
                ELSE Ok([acc EXCEPT !.port = n])
        ELSE IF key = <<L("n")>> THEN
            LET t == UrlDecode(value)
            IN  IF t = None THEN InvalidMessage("invalid name")
                ELSE Ok([acc EXCEPT !.name = t])
        ELSE OtherKey(part, acc)

\* from_url's loop over the parts, then its check that no field is missing
RECURSIVE ParseParts(_, _)
ParseParts(parts, acc) ==
    IF parts = <<>> THEN
        IF acc.session_id = None THEN InvalidMessage("missing session_id")
        ELSE IF acc.pubkey = None THEN InvalidMessage("missing pubkey")
        ELSE IF acc.ip = None THEN InvalidMessage("missing ip")
        ELSE IF acc.port = None THEN InvalidMessage("missing port")
        ELSE IF acc.name = None THEN InvalidMessage("missing name")
        ELSE Ok([session_id |-> acc.session_id[1], pubkey |-> acc.pubkey[1],
                 ip |-> acc.ip[1], port |-> acc.port[1], name |-> acc.name[1]])
    ELSE LET r == ParsePart(Head(parts), acc)
         IN  IF r.ok THEN ParseParts(Tail(parts), r.val) ELSE r

\* PairingQrData::from_url
FromUrl(url) ==
    IF ~StartsWith(url, UrlPrefix) THEN InvalidMessage("invalid scheme")
    ELSE ParseParts(Split(Drop(url, Len(UrlPrefix)), Ch["&"]), NoFields)

(***************************************************************************)
(* Length-prefixed framing.  A stream or a payload is a sequence of runs,   *)
(* [b |-> byte, n |-> how many times], so that payloads of the size of the *)
(* limit can be written and read; no run is empty and no two neighbours    *)
(* hold the same byte.                                                     *)
(***************************************************************************)
MAX_MESSAGE_SIZE == 10 * 1024 * 1024

RECURSIVE BytesLen(_)
BytesLen(s) ==
    IF Len(s) = 0 THEN 0
    ELSE IF Len(s) = 1 THEN s[1].n
    ELSE LET half == Len(s) \div 2
         IN  BytesLen(SubSeq(s, 1, half)) + BytesLen(SubSeq(s, half + 1, Len(s)))

\* the runs of s with empty runs dropped and equal neighbours joined
RECURSIVE BytesCanon(_)
BytesCanon(s) ==
    IF s = <<>> THEN <<>>
    ELSE IF Head(s).n = 0 THEN BytesCanon(Tail(s))
    ELSE LET t == BytesCanon(Tail(s))
         IN  IF t # <<>> /\ Head(t).b = Head(s).b
             THEN <<[b |-> Head(s).b, n |-> Head(s).n + Head(t).n]>> \o Tail(t)
             ELSE <<Head(s)>> \o t

\* the first k bytes of s, and s without them (k is at most the length of s)
RECURSIVE BytesTake(_, _)
BytesTake(s, k) ==
    IF k = 0 \/ s = <<>> THEN <<>>
    ELSE IF Head(s).n <= k THEN <<Head(s)>> \o BytesTake(Tail(s), k - Head(s).n)
    ELSE <<[b |-> Head(s).b, n |-> k]>>

RECURSIVE BytesDrop(_, _)
BytesDrop(s, k) ==
    IF k = 0 \/ s = <<>> THEN s
    ELSE IF Head(s).n <= k THEN BytesDrop(Tail(s), k - Head(s).n)
    ELSE <<[b |-> Head(s).b, n |-> Head(s).n - k]>> \o Tail(s)

\* a variant of the length prefix: low byte first
U32ToLeBytes(len) ==
    BytesCanon(<<[b |-> len % 256, n |-> 1],
                 [b |-> (len \div 256) % 256, n |-> 1],
                 [b |-> (len \div 65536) % 256, n |-> 1],
                 [b |-> len \div 16777216, n |-> 1]>>)

\* (len as u32).to_be_bytes(); the lengths of the model are below 2^31, where the
\* cast keeps the value
U32ToBeBytes(len) ==
    BytesCanon(<<[b |-> len \div 16777216, n |-> 1],
                 [b |-> (len \div 65536) % 256, n |-> 1],
                 [b |-> (len \div 256) % 256, n |-> 1],
                 [b |-> len % 256, n |-> 1]>>)

\* u32::from_be_bytes(len_buf) as usize.  The values from 2^31 on are all above
\* the limit they are compared with: 2^31 - 1 stands for each of them.
U32FromBeBytes(buf) ==
    LET at(i) == Head(BytesDrop(buf, i - 1)).b
    IN  IF at(1) >= 128 THEN 2147483647
        ELSE at(1) * 16777216 + at(2) * 65536 + at(3) * 256 + at(4)

\* read_exact on a stream that holds `stream` and then ends: the k bytes and what
\* is left, or UnexpectedEof with the stream used up
ReadExact(stream, k) ==
    IF BytesLen(stream) >= k
    THEN [result |-> Ok(BytesTake(stream, k)), rest |-> BytesDrop(stream, k)]
    ELSE [result |-> Err("Network", "unexpected end of file"), rest |-> <<>>]

\* a variant of the read: the buffer for the payload is made before the length is
\* checked
ReadFramedMessageAllocFirst(stream) ==
    LET len_buf == ReadExact(stream, 4)
        len == U32FromBeBytes(len_buf.result.val)
    IN  IF ~len_buf.result.ok
            THEN [result |-> len_buf.result, rest |-> len_buf.rest, allocated |-> 0]
        ELSE IF len > MAX_MESSAGE_SIZE
            THEN [result |-> InvalidMessage("message too large"),
                  rest |-> len_buf.rest, allocated |-> len]
        ELSE [result |-> ReadExact(len_buf.rest, len).result,
              rest |-> ReadExact(len_buf.rest, len).rest, allocated |-> len]

\* read_framed_message: what is returned, what is left of the stream, and the size
\* of the buffer made for the payload
ReadFramedMessage(stream) ==
    LET len_buf == ReadExact(stream, 4)
        len == U32FromBeBytes(len_buf.result.val)
        payload == ReadExact(len_buf.rest, len)
    IN  IF ~len_buf.result.ok
            THEN [result |-> len_buf.result, rest |-> len_buf.rest, allocated |-> 0]
        ELSE IF len > MAX_MESSAGE_SIZE
            THEN [result |-> InvalidMessage("message too large"),
                  rest |-> len_buf.rest, allocated |-> 0]
        ELSE [result |-> payload.result, rest |-> payload.rest, allocated |-> len]

\* PeerConnection::recv and PeerConnectionReader::recv, up to Message::from_bytes:
\* the same three steps, the limit written as 10 * 1024 * 1024
PeerConnectionRecv(stream) ==
    LET len_buf == ReadExact(stream, 4)
        len == U32FromBeBytes(len_buf.result.val)
        payload == ReadExact(len_buf.rest, len)
    IN  IF ~len_buf.result.ok
            THEN [result |-> len_buf.result, rest |-> len_buf.rest, allocated |-> 0]
        ELSE IF len > 10 * 1024 * 1024
            THEN [result |-> InvalidMessage("message too large"),
                  rest |-> len_buf.rest, allocated |-> 0]
        ELSE [result |-> payload.result, rest |-> payload.rest, allocated |-> len]

\* a variant of write_framed_message: the limit is one byte lower
WriteFramedMessageOffByOne(out, payload) ==
    IF BytesLen(payload) >= MAX_MESSAGE_SIZE
    THEN [result |-> InvalidMessage("message too large"), out |-> out]
    ELSE [result |-> Ok("unit"),
          out |-> BytesCanon(out \o U32ToBeBytes(BytesLen(payload)) \o payload)]

\* write_framed_message into a writer that takes every byte
WriteFramedMessage(out, payload) ==
    IF BytesLen(payload) > MAX_MESSAGE_SIZE
    THEN [result |-> InvalidMessage("message too large"), out |-> out]
    ELSE [result |-> Ok("unit"),
          out |-> BytesCanon(out \o U32ToBeBytes(BytesLen(payload)) \o payload)]

\* Message::to_frame, from the bytes to_bytes gave
ToFrame(payload) == BytesCanon(U32ToBeBytes(BytesLen(payload)) \o payload)

\* PeerConnection::send and PeerConnectionWriter::send, from the bytes to_bytes
\* gave: to_frame, write_all, flush
PeerConnectionSend(out, payload) ==
    [result |-> Ok("unit"), out |-> BytesCanon(out \o ToFrame(payload))]

(***************************************************************************)
(* serde_json on the documents the message types write: objects, strings   *)
(* and unsigned numbers.  to_vec writes them compact, with the fields in   *)
(* the order of their declaration; from_slice is modelled on documents of  *)
(* that shape (no white space, no field the type does not have) and takes  *)
(* the fields in any order.                                                *)
(***************************************************************************)
\* the bytes of the variant and field names
JsonNames ==
    [Announce |-> <<65, 110, 110, 111, 117, 110, 99, 101>>,
     PairRequest |-> <<80, 97, 105, 114, 82, 101, 113, 117, 101, 115, 116>>,
     PairAccept |-> <<80, 97, 105, 114, 65, 99, 99, 101, 112, 116>>,
     PairReject |-> <<80, 97, 105, 114, 82, 101, 106, 101, 99, 116>>,
     ClipboardSync |-> <<67, 108, 105, 112, 98, 111, 97, 114, 100, 83, 121, 110, 99>>,
     Ack |-> <<65, 99, 107>>,
     Ping |-> <<80, 105, 110, 103>>,
     Pong |-> <<80, 111, 110, 103>>,
     device_id |-> <<100, 101, 118, 105, 99, 101, 95, 105, 100>>,
     device_name |-> <<100, 101, 118, 105, 99, 101, 95, 110, 97, 109, 101>>,
     pubkey_fingerprint |-> <<112, 117, 98, 107, 101, 121, 95, 102, 105, 110, 103, 101, 114, 112, 114, 105, 110, 116>>,
     protocol_version |-> <<112, 114, 111, 116, 111, 99, 111, 108, 95, 118, 101, 114, 115, 105, 111, 110>>,
     session_id |-> <<115, 101, 115, 115, 105, 111, 110, 95, 105, 100>>,
     ephemeral_pubkey |-> <<101, 112, 104, 101, 109, 101, 114, 97, 108, 95, 112, 117, 98, 107, 101, 121>>,
     identity_pubkey |-> <<105, 100, 101, 110, 116, 105, 116, 121, 95, 112, 117, 98, 107, 101, 121>>,
     signature |-> <<115, 105, 103, 110, 97, 116, 117, 114, 101>>,
     reason |-> <<114, 101, 97, 115, 111, 110>>,
     message_id |-> <<109, 101, 115, 115, 97, 103, 101, 95, 105, 100>>,
     sender_id |-> <<115, 101, 110, 100, 101, 114, 95, 105, 100>>,
     content_hash |-> <<99, 111, 110, 116, 101, 110, 116, 95, 104, 97, 115, 104>>,
     encrypted_content |-> <<101, 110, 99, 114, 121, 112, 116, 101, 100, 95, 99, 111, 110, 116, 101, 110, 116>>,
     timestamp |-> <<116, 105, 109, 101, 115, 116, 97, 109, 112>>,
     nonce |-> <<110, 111, 110, 99, 101>>,
     ciphertext |-> <<99, 105, 112, 104, 101, 114, 116, 101, 120, 116>>,
     Text |-> <<84, 101, 120, 116>>,
     RichText |-> <<82, 105, 99, 104, 84, 101, 120, 116>>,
     plain |-> <<112, 108, 97, 105, 110>>,
     html |-> <<104, 116, 109, 108>>]

\* the fields of each variant of Message, of EncryptedPayload and of
\* ClipboardContent::RichText, in the order declared, with
\* how each is written: Uuid as its hyphenated text, PublicKey, VerifyingKey,
\* ContentHash, the nonce and byte vectors as base64 text, integers as decimal
MessageFields ==
    [Announce |-> <<<<"device_id", "uuid">>, <<"device_name", "string">>,
                    <<"pubkey_fingerprint", "string">>, <<"protocol_version", "u16">>>>,
     PairRequest |-> <<<<"session_id", "uuid">>, <<"device_id", "uuid">>,
                       <<"device_name", "string">>, <<"ephemeral_pubkey", "key">>,
                       <<"identity_pubkey", "key">>>>,
     PairAccept |-> <<<<"session_id", "uuid">>, <<"device_id", "uuid">>,
                      <<"device_name", "string">>, <<"ephemeral_pubkey", "key">>,
                      <<"identity_pubkey", "key">>, <<"signature", "bytes">>>>,
     PairReject |-> <<<<"session_id", "uuid">>, <<"reason", "string">>>>,
     ClipboardSync |-> <<<<"message_id", "uuid">>, <<"sender_id", "uuid">>,
                         <<"content_hash", "key">>, <<"encrypted_content", "payload">>,
                         <<"timestamp", "u64">>>>,
     Ack |-> <<<<"message_id", "uuid">>>>,
     Ping |-> <<<<"timestamp", "u64">>>>,
     Pong |-> <<<<"timestamp", "u64">>>>,
     EncryptedPayload |-> <<<<"nonce", "nonce">>, <<"ciphertext", "bytes">>>>,
     RichText |-> <<<<"plain", "string">>, <<"html", "string">>>>]

MessageTags ==
    {"Announce", "PairRequest", "PairAccept", "PairReject", "ClipboardSync", "Ack",
     "Ping", "Pong"}

\* base64 STANDARD: alphabet A-Z a-z 0-9 + /, padded with '=' to a multiple of four
Base64Encode(b) ==
    LET u == Base64UrlEncode(b)
    IN  [i \in 1..Len(u) |-> IF u[i] = Ch["-"] THEN Ch["+"]
                             ELSE IF u[i] = Ch["_"] THEN Ch["/"] ELSE u[i]]
        \o [i \in 1..((4 - (Len(u) % 4)) % 4) |-> Ch["="]]

\* the decoded bytes, None on any DecodeError (a length that is no multiple of
\* four, padding elsewhere than at the end, a symbol outside the alphabet)
Base64Decode(s) ==
    LET pad == IF s # <<>> /\ s[Len(s)] = Ch["="]
               THEN (IF s[Len(s) - 1] = Ch["="] THEN 2 ELSE 1) ELSE 0
        body == SubSeq(s, 1, Len(s) - pad)
    IN  IF Len(s) % 4 # 0 THEN None
        ELSE IF \E i \in 1..Len(body) : body[i] \in {Ch["="], Ch["-"], Ch["_"]} THEN None
        ELSE Base64UrlDecode([i \in 1..Len(body) |->
                                IF body[i] = Ch["+"] THEN Ch["-"]
                                ELSE IF body[i] = Ch["/"] THEN Ch["_"] ELSE body[i]])

\* a variant of the escaping: every byte is written as it is
JsonEscapeNothing(s) == s

\* the text between the quotes of a string: '"' and '\' after a '\', the control
\* characters as \b \f \n \r \t or \u00XX, every other byte as it is
RECURSIVE JsonEscape(_)
JsonEscape(s) ==
    IF s = <<>> THEN <<>>
    ELSE LET b == Head(s)
             e == IF b \in {Ch["\""], Ch["\\"]} THEN <<Ch["\\"], b>>
                  ELSE IF b = 8 THEN <<Ch["\\"], L("b")>>
                  ELSE IF b = 12 THEN <<Ch["\\"], L("f")>>
                  ELSE IF b = 10 THEN <<Ch["\\"], L("n")>>
                  ELSE IF b = 13 THEN <<Ch["\\"], L("r")>>
                  ELSE IF b = 9 THEN <<Ch["\\"], L("t")>>
                  ELSE IF b < 32 THEN <<Ch["\\"], L("u"), 48, 48>> \o HexFixed(b, 2)
                  ELSE <<b>>
         IN  e \o JsonEscape(Tail(s))

JsonString(s) == <<Ch["\""]>> \o JsonEscape(s) \o <<Ch["\""]>>

\* Serialize of a value of the given kind, and of the fields of a struct
RECURSIVE JsonValue(_, _), JsonFields(_, _)
JsonValue(kind, v) ==
    CASE kind = "uuid" -> JsonString(UuidFormat(v))
      [] kind = "string" -> JsonString(v)
      [] kind \in {"u16", "u64"} -> DecFormat(v)
      [] kind \in {"key", "nonce", "bytes"} -> JsonString(Base64Encode(v))
      [] kind = "payload" ->
            <<Ch["{"]>> \o JsonFields(MessageFields.EncryptedPayload, v) \o <<Ch["}"]>>

JsonFields(fields, v) ==
    IF fields = <<>> THEN <<>>
    ELSE JsonString(JsonNames[fields[1][1]]) \o <<Ch[":"]>>
            \o JsonValue(fields[1][2], v[fields[1][1]])
            \o (IF Len(fields) > 1 THEN <<Ch[","]>> ELSE <<>>)
            \o JsonFields(Tail(fields), v)

\* Message::to_bytes: {"Variant":{fields}}
MessageToBytes(m) ==
    <<Ch["{"]>> \o JsonString(JsonNames[m.type]) \o <<Ch[":"], Ch["{"]>>
        \o JsonFields(MessageFields[m.type], m) \o <<Ch["}"], Ch["}"]>>

\* ClipboardContent::to_bytes: {"Text":"..."} or {"RichText":{"plain":"...","html":"..."}}
ClipboardContentToBytes(c) ==
    <<Ch["{"]>> \o JsonString(JsonNames[c.type]) \o <<Ch[":"]>>
        \o (IF c.type = "Text" THEN JsonString(c.text)
            ELSE <<Ch["{"]>> \o JsonFields(MessageFields.RichText, c) \o <<Ch["}"]>>)
        \o <<Ch["}"]>>

\* what a step of the parser gives: the value and the index after it, next = 0
\* for an error
JsonFail == [next |-> 0, val |-> <<>>]

\* the string whose opening quote is before s[i]: its bytes with the escapes
\* undone, up to the closing quote.  \uXXXX is taken for the code points below 128
RECURSIVE JsonParseChars(_, _, _)
JsonParseChars(s, i, acc) ==
    IF i > Len(s) THEN JsonFail
    ELSE IF s[i] = Ch["\""] THEN [next |-> i + 1, val |-> acc]
    ELSE IF s[i] < 32 THEN JsonFail
    ELSE IF s[i] # Ch["\\"] THEN JsonParseChars(s, i + 1, Append(acc, s[i]))
    ELSE IF i + 1 > Len(s) THEN JsonFail
    ELSE LET c == s[i + 1]
             simple == IF c \in {Ch["\""], Ch["\\"], Ch["/"]} THEN c
                       ELSE IF c = L("b") THEN 8
                       ELSE IF c = L("f") THEN 12
                       ELSE IF c = L("n") THEN 10
                       ELSE IF c = L("r") THEN 13
                       ELSE IF c = L("t") THEN 9
                       ELSE -1
             code == IF c = L("u") /\ i + 5 <= Len(s)
                     THEN HexParse(SubSeq(s, i + 2, i + 5), 0) ELSE -1
         IN  IF simple >= 0 THEN JsonParseChars(s, i + 2, Append(acc, simple))
             ELSE IF code \in 0..127 THEN JsonParseChars(s, i + 6, Append(acc, code))
             ELSE JsonFail

JsonParseString(s, i) ==
    IF i <= Len(s) /\ s[i] = Ch["\""] THEN JsonParseChars(s, i + 1, <<>>) ELSE JsonFail

\* an unsigned number at s[i]: digits, no leading zero, at most max.  u64 values
\* are kept below 2^31, the largest integer of the checker
JsonParseNumber(s, i, max) ==
    LET RECURSIVE End(_)
        End(j) == IF j <= Len(s) /\ IsDigit(s[j]) THEN End(j + 1) ELSE j
        digits == SubSeq(s, i, End(i) - 1)
        v == DecParse(digits, 0, max)
    IN  IF digits = <<>> \/ (Len(digits) > 1 /\ digits[1] = 48) \/ v < 0 THEN JsonFail
        ELSE [next |-> End(i), val |-> v]

\* a value bound to a name once
Bind(x, F(_)) == F(x)

\* Deserialize of a value of the given kind at s[i], and of the fields of a struct
\* from the first key at s[i] to the closing brace
RECURSIVE JsonParseValue(_, _, _), JsonParseFields(_, _, _, _)
JsonParseValue(kind, s, i) ==
    IF kind = "u16" THEN JsonParseNumber(s, i, U16_MAX)
    ELSE IF kind = "u64" THEN JsonParseNumber(s, i, 2147483647)
    ELSE IF kind = "payload" THEN
        IF i <= Len(s) /\ s[i] = Ch["{"]
        THEN JsonParseFields(MessageFields.EncryptedPayload, s, i + 1, <<>>)
        ELSE JsonFail
    ELSE Bind(JsonParseString(s, i), LAMBDA str :
        IF str.next = 0 THEN JsonFail
        ELSE IF kind = "string" THEN (IF ValidUtf8(str.val) THEN str ELSE JsonFail)
        ELSE Bind(IF kind = "uuid" THEN UuidParseStr(str.val) ELSE Base64Decode(str.val),
                  LAMBDA parsed :
            IF parsed = None THEN JsonFail
            ELSE IF kind = "key" /\ Len(parsed[1]) # KeyLen THEN JsonFail
            ELSE IF kind = "nonce" /\ Len(parsed[1]) # NonceLen THEN JsonFail
            ELSE [next |-> str.next, val |-> parsed[1]]))

JsonParseFields(fields, s, i, acc) ==
    Bind(JsonParseString(s, i), LAMBDA key :
        IF key.next = 0 \/ key.next > Len(s) THEN JsonFail
        ELSE IF s[key.next] # Ch[":"] THEN JsonFail
        ELSE Bind({j \in 1..Len(fields) : JsonNames[fields[j][1]] = key.val}, LAMBDA hits :
            IF hits = {} THEN JsonFail
            ELSE Bind(fields[CHOOSE j \in hits : TRUE], LAMBDA field :
                IF field[1] \in DOMAIN acc THEN JsonFail
                ELSE Bind(JsonParseValue(field[2], s, key.next + 1), LAMBDA v :
                    IF v.next = 0 \/ v.next > Len(s) THEN JsonFail
                    ELSE IF s[v.next] = Ch[","]
                        THEN JsonParseFields(fields, s, v.next + 1,
                                             (field[1] :> v.val) @@ acc)
                    ELSE IF s[v.next] = Ch["}"]
                            /\ DOMAIN acc \cup {field[1]}
                                    = {fields[j][1] : j \in 1..Len(fields)}
                        THEN [next |-> v.next + 1, val |-> (field[1] :> v.val) @@ acc]
                    ELSE JsonFail))))

\* the key of the one-entry object a value of an enum is written as: the string
\* after the opening brace, when a colon and something more follow it
JsonParseTag(bytes) ==
    Bind(JsonParseString(bytes, 2), LAMBDA tag :
        IF /\ bytes # <<>> /\ bytes[1] = Ch["{"]
           /\ tag.next # 0 /\ tag.next + 1 <= Len(bytes)
           /\ bytes[tag.next] = Ch[":"]
        THEN tag ELSE JsonFail)

\* Message::from_bytes: the variant named by the one key, then its fields
MessageFromBytes(bytes) ==
    Bind(JsonParseTag(bytes), LAMBDA tag :
        Bind({t \in MessageTags : JsonNames[t] = tag.val}, LAMBDA tags :
            IF tag.next = 0 \/ tags = {} \/ bytes[tag.next + 1] # Ch["{"]
            THEN Err("Serialization", "invalid message")
            ELSE Bind(CHOOSE t \in tags : TRUE, LAMBDA type :
                Bind(JsonParseFields(MessageFields[type], bytes, tag.next + 2, <<>>),
                     LAMBDA body :
                    IF body.next = Len(bytes) /\ bytes[body.next] = Ch["}"]
                    THEN Ok(("type" :> type) @@ body.val)
                    ELSE Err("Serialization", "invalid message")))))

\* ClipboardContent::from_bytes
ClipboardContentFromBytes(bytes) ==
    Bind(JsonParseTag(bytes), LAMBDA tag :
        IF tag.next # 0 /\ tag.val = JsonNames.Text
            THEN Bind(JsonParseValue("string", bytes, tag.next + 1), LAMBDA text :
                    IF text.next = Len(bytes) /\ bytes[text.next] = Ch["}"]
                    THEN Ok([type |-> "Text", text |-> text.val])
                    ELSE Err("Serialization", "invalid clipboard content"))
        ELSE IF tag.next # 0 /\ tag.val = JsonNames.RichText /\ bytes[tag.next + 1] = Ch["{"]
            THEN Bind(JsonParseFields(MessageFields.RichText, bytes, tag.next + 2, <<>>),
                      LAMBDA rich :
                    IF rich.next = Len(bytes) /\ bytes[rich.next] = Ch["}"]
                    THEN Ok(("type" :> "RichText") @@ rich.val)
                    ELSE Err("Serialization", "invalid clipboard content"))
        ELSE Err("Serialization", "invalid clipboard content"))

(***************************************************************************)
(* The inputs of a run.                                                    *)
(***************************************************************************)
Conns == 1..MaxConns

\* "My Device", "a&b=c%", "Zo" followed by e-diaeresis (two bytes)
NameMyDevice == <<77, 121, 32, 68, 101, 118, 105, 99, 101>>
NameSymbols == <<97, 38, 98, 61, 99, 37>>
NameZoe == <<90, 111, 195, 171>>

\* "10.0.0.2"
Ip10 == <<49, 48, 46, 48, 46, 48, 46, 50>>
\* "127.0.0.1"
IpLoopback == <<49, 50, 55, 46, 48, 46, 48, 46, 49>>

\* the instances modelled: Config.port, DeviceIdentity.name, and what get_local_ips()
\* returns first on the machine (nothing, or an address)
Configs ==
    {[port |-> DEFAULT_PORT, device_name |-> NameMyDevice, local_ip |-> Some(Ip10)],
     [port |-> 8080, device_name |-> NameSymbols, local_ip |-> None]}

\* the secrets EphemeralSecret::generate may draw for a session of this device
ServerSecrets == {3, 7}

\* this device's DeviceIdentity
OurDeviceId == 10
OurSigningKey == "our-signing-key"

\* SigningKey::verifying_key and SigningKey::sign, ideal: a signature stands for
\* the key and the data signed
VerifyingKeyOf(signing_key) == [verifies |-> signing_key]
Sign(signing_key, data) == [signed_by |-> signing_key, data |-> data]

\* VerifyingKey::verify: Ok for the signature the key's owner made over the
\* message, an error for any other
Verify(verifying_key, message, signature) ==
    IF signature = [signed_by |-> verifying_key.verifies, data |-> message]
    THEN Ok("unit") ELSE Err("Crypto", "signature error")

\* Uuid::as_bytes: the id's bytes, most significant first
UuidAsBytes(u) == Reverse(LeBytes(u, UuidHalf))

\* PairingSession::sign_pairing
SignPairing(session, signing_key, peer_pubkey) ==
    Sign(signing_key, UuidAsBytes(session.session_id)
                        \o PublicKeyToBytes(session.ephemeral_public)
                        \o PublicKeyToBytes(peer_pubkey))

\* the peers that may ask to pair
Requesters ==
    {[device_id |-> 21, device_name |-> <<66>>, secret |-> 4, signing_key |-> "peer-b"],
     [device_id |-> 22, device_name |-> <<67>>, secret |-> 6, signing_key |-> "peer-c"]}

\* the session ids a PairRequest may carry: those start_pairing hands out
SessionIds == 1..MaxSessions

PairRequests ==
    {[type |-> "PairRequest",
      session_id |-> s,
      device_id |-> r.device_id,
      device_name |-> r.device_name,
      ephemeral_pubkey |-> PublicKeyOf(r.secret),
      identity_pubkey |-> VerifyingKeyOf(r.signing_key)] : s \in SessionIds, r \in Requesters}

\* the device ids a peer may claim
DeviceIds == {r.device_id : r \in Requesters}

\* the ClipboardSync messages a peer may send: the content "hi" under the session
\* key the peer derives from the key of a QR descriptor
ClipboardSyncs ==
    {[type |-> "ClipboardSync", sender_id |-> r.device_id,
      encrypted_content |->
        SessionKeyEncrypt(FromSharedSecret(DiffieHellman(r.secret, PublicKeyOf(s))), 1,
                          ClipboardContentToBytes([type |-> "Text",
                                                   text |-> <<104, 105>>])).val] :
        r \in Requesters, s \in ServerSecrets}

\* the variants the pairing-enabled handler has no arm for
IgnoredTypes == {"Announce", "PairAccept", "PairReject", "Ack", "Ping", "Pong"}

OtherMessages ==
    {[type |-> t] : t \in IgnoredTypes}

Messages == PairRequests \cup ClipboardSyncs \cup OtherMessages

\* how reading the one message of a connection can fail
ReadFailures ==
    {Err("Network", "read failed"),
     Err("InvalidMessage", "message too large"),
     Err("Serialization", "malformed payload")}

(***************************************************************************)
(* The state.                                                              *)
(***************************************************************************)
VARIABLES
    config,           \* OmniclipService.config.port, identity.name, the machine's address
    active_pairing,   \* Arc<RwLock<Option<PairingSession>>>
    sessions_created, \* how many sessions PairingSession::new has made
    server_devices,   \* SyncServer.paired_devices: device id -> PairedDevice, None when absent
    tx,               \* the SyncEvent channel, oldest first
    accepted,         \* connections the accept loop has accepted
    pc,               \* where each connection's handler is
    msg,              \* the message each handler read
    held,             \* each handler's local pairing_session
    result,           \* what each handler returned
    sent,             \* the messages written back on each connection
    api,              \* the last call of the service API, and what it returned
    qr,               \* test_qr_url_roundtrip: descriptor, URL, parsed
    kx,               \* test_pairing_key_derivation: sessions, keys, payload
    fr,               \* the framing tests: payload, stream written, what was read back
    mr,               \* test_message_roundtrip: message, bytes, decoded
    service           \* OmniclipService: paired_devices, the ServiceEvent channel, the relay task

vars == <<config, active_pairing, sessions_created, server_devices, tx, accepted,
          pc, msg, held, result, sent, api, qr, kx, fr, mr, service>>

server_vars == <<config, active_pairing, sessions_created, server_devices, tx, accepted,
                 pc, msg, held, result, sent, api>>

NoCall == [op |-> "none"]
Idle == [stage |-> "idle"]

\* OmniclipService::new, and the tasks of start before they have done anything: no
\* paired device, no last-sent hash, nothing on the ServiceEvent channel, the relay
\* has taken no server event, the clipboard task has seen no change (change, clip:
\* its loop variables; changes: how many it took), nothing was ever written to a
\* peer, no unpair_device has returned, the accept loop runs, the task that reads
\* the ServiceEvent channel is in no call
NewService ==
    [paired_devices |-> [d \in DeviceIds |-> None], tx |-> <<>>,
     relay |-> "running", seen |-> <<>>,
     last_sent_hash |-> None, change |-> None, clip |-> None, changes |-> 0,
     transmitted |-> <<>>, unpaired |-> [d \in DeviceIds |-> None],
     server |-> "running", consumer |-> "idle"]

\* nothing has run yet: OmniclipService::new and SyncServer::bind
Fresh ==
    /\ active_pairing = None
    /\ sessions_created = 0
    /\ server_devices = [d \in DeviceIds |-> None]
    /\ tx = <<>>
    /\ accepted = 0
    /\ pc = [h \in Conns |-> "idle"]
    /\ msg = [h \in Conns |-> None]
    /\ held = [h \in Conns |-> None]
    /\ result = [h \in Conns |-> None]
    /\ sent = [h \in Conns |-> <<>>]
    /\ api = NoCall

\* the other parts of the state, before anything has used them
Unused ==
    /\ fr = Idle
    /\ mr = Idle
    /\ service = NewService

Init ==
    /\ config \in Configs
    /\ Fresh
    /\ qr = Idle
    /\ kx = Idle
    /\ Unused

(***************************************************************************)
(* OmniclipService: start_pairing and get_pairing_qr_svg.                  *)
(***************************************************************************)
\* local_ips.first().map(to_string).unwrap_or("127.0.0.1")
FirstIpOr(ips) == IF ips = None THEN IpLoopback ELSE ips[1]

\* PairingQrData::to_qr_svg: the image of the URL
ToQrSvg(d) == Ok([svg_of |-> ToUrl(d)])

\* start_pairing: a new session replaces the slot's content; its URL is returned
StartPairing ==
    /\ sessions_created < MaxSessions
    /\ \E secret \in ServerSecrets :
        LET session == NewPairingSession(sessions_created + 1, secret)
            qr_data == QrData(session, FirstIpOr(config.local_ip), config.port,
                              config.device_name)
        IN  /\ active_pairing' = Some(session)
            /\ api' = [op |-> "start_pairing", result |-> Ok(ToUrl(qr_data))]
    /\ sessions_created' = sessions_created + 1
    /\ UNCHANGED <<config, server_devices, tx, accepted, pc, msg, held, result, sent, qr, kx, fr, mr, service>>

\* get_pairing_qr_svg: the image for the session in the slot
GetPairingQrSvg ==
    /\ api' = [op |-> "get_pairing_qr_svg",
               result |->
                   IF active_pairing = None
                   THEN InvalidMessage("no active pairing session")
                   ELSE ToQrSvg(QrData(active_pairing[1], FirstIpOr(config.local_ip),
                                       config.port, config.device_name))]
    /\ UNCHANGED <<config, active_pairing, sessions_created, server_devices, tx, accepted,
                   pc, msg, held, result, sent, qr, kx, fr, mr, service>>

(***************************************************************************)
(* SyncServer::start_with_pairing: the accept loop and, per connection,    *)
(* handle_connection_with_pairing.  A handler's steps are the stretches    *)
(* between its await points: the read, each lock acquisition, the write    *)
(* and the channel send.                                                   *)
(***************************************************************************)
\* a variant of the return: the handler goes back to read the next frame
FinishReadsOn(h, r) ==
    /\ pc' = [pc EXCEPT ![h] = "read"]
    /\ result' = [result EXCEPT ![h] = Some(r)]

\* the handler returns r: its task ends and the stream is dropped with it
Finish(h, r) ==
    /\ pc' = [pc EXCEPT ![h] = "done"]
    /\ result' = [result EXCEPT ![h] = Some(r)]

\* listener.accept() hands the loop a connection, while the loop's task is not
\* aborted; its handler is spawned as a task of its own
Accept ==
    /\ service.server = "running"
    /\ accepted < MaxConns
    /\ accepted' = accepted + 1
    /\ pc' = [pc EXCEPT ![accepted + 1] = "read"]
    /\ UNCHANGED <<config, active_pairing, sessions_created, server_devices, tx,
                   msg, held, result, sent, api, qr, kx, fr, mr, service>>

\* read_framed_message and Message::from_bytes fail: the handler returns the error
ReadFails(h) ==
    /\ pc[h] = "read"
    /\ \E e \in ReadFailures : Finish(h, e)
    /\ UNCHANGED <<config, active_pairing, sessions_created, server_devices, tx, accepted,
                   msg, held, sent, api, qr, kx, fr, mr, service>>

\* a variant of the dispatch: a Ping is answered with a Pong
ReadMessageAnswersPing(h) ==
    /\ pc[h] = "read"
    /\ \E m \in Messages :
        /\ msg' = [msg EXCEPT ![h] = Some(m)]
        /\ sent' = [sent EXCEPT ![h] = IF m.type = "Ping"
                                       THEN Append(@, [type |-> "Pong"]) ELSE @]
        /\ IF m.type = "PairRequest" THEN
                /\ pc' = [pc EXCEPT ![h] = "take"]
                /\ UNCHANGED result
           ELSE IF m.type = "ClipboardSync" THEN
                /\ pc' = [pc EXCEPT ![h] = "lookup"]
                /\ UNCHANGED result
           ELSE Finish(h, Ok("unit"))
    /\ UNCHANGED <<config, active_pairing, sessions_created, server_devices, tx, accepted,
                   held, api, qr, kx, fr, mr, service>>

\* the one message of the connection is read and dispatched on; the last arm,
\* other => tracing::debug!, does nothing and the handler returns Ok(())
ReadMessage(h) ==
    /\ pc[h] = "read"
    /\ \E m \in Messages :
        /\ msg' = [msg EXCEPT ![h] = Some(m)]
        /\ IF m.type = "PairRequest" THEN
                /\ pc' = [pc EXCEPT ![h] = "take"]
                /\ UNCHANGED result
           ELSE IF m.type = "ClipboardSync" THEN
                /\ pc' = [pc EXCEPT ![h] = "lookup"]
                /\ UNCHANGED result
           ELSE Finish(h, Ok("unit"))
    /\ UNCHANGED <<config, active_pairing, sessions_created, server_devices, tx, accepted,
                   held, sent, api, qr, kx, fr, mr, service>>

\* a variant of the take: the session is read and left in the slot
TakeSessionLeavesIt(h) ==
    /\ pc[h] = "take"
    /\ IF active_pairing = None THEN
            /\ Finish(h, Err("NotPaired", "no active pairing session"))
            /\ UNCHANGED held
       ELSE /\ held' = [held EXCEPT ![h] = active_pairing]
            /\ pc' = [pc EXCEPT ![h] =
                        IF msg[h][1].session_id # active_pairing[1].session_id
                        THEN "restore" ELSE "write"]
            /\ UNCHANGED result
    /\ UNCHANGED <<config, active_pairing, sessions_created, server_devices, tx, accepted,
                   msg, sent, api, qr, kx, fr, mr, service>>

\* active_pairing.write().await.take(), then the comparison of the session ids
TakeSession(h) ==
    /\ pc[h] = "take"
    /\ IF active_pairing = None THEN
            /\ Finish(h, Err("NotPaired", "no active pairing session"))
            /\ UNCHANGED <<active_pairing, held>>
       ELSE /\ active_pairing' = None
            /\ held' = [held EXCEPT ![h] = active_pairing]
            /\ pc' = [pc EXCEPT ![h] =
                        IF msg[h][1].session_id # active_pairing[1].session_id
                        THEN "restore" ELSE "write"]
            /\ UNCHANGED result
    /\ UNCHANGED <<config, sessions_created, server_devices, tx, accepted,
                   msg, sent, api, qr, kx, fr, mr, service>>

\* a variant of the mismatch branch: the session is not put back
RestoreSessionDropsIt(h) ==
    /\ pc[h] = "restore"
    /\ held' = [held EXCEPT ![h] = None]
    /\ Finish(h, InvalidMessage("session ID mismatch"))
    /\ UNCHANGED <<config, active_pairing, sessions_created, server_devices, tx, accepted,
                   msg, sent, api, qr, kx, fr, mr, service>>

\* the mismatch branch: *active_pairing.write().await = Some(pairing_session)
RestoreSession(h) ==
    /\ pc[h] = "restore"
    /\ active_pairing' = held[h]
    /\ held' = [held EXCEPT ![h] = None]
    /\ Finish(h, InvalidMessage("session ID mismatch"))
    /\ UNCHANGED <<config, sessions_created, server_devices, tx, accepted,
                   msg, sent, api, qr, kx, fr, mr, service>>

\* the session key the handler derived: pairing_session.complete(&req.ephemeral_pubkey)
SessionKeyOf(h) == Complete(held[h][1], msg[h][1].ephemeral_pubkey)

\* a variant of the PairAccept: the peer's key is signed before ours
PairAcceptPeerKeyFirst(h) ==
    LET req == msg[h][1]
        our_ephemeral_pubkey == held[h][1].ephemeral_public
        sign_data == UuidAsBytes(req.session_id)
                        \o PublicKeyToBytes(req.ephemeral_pubkey)
                        \o PublicKeyToBytes(our_ephemeral_pubkey)
    IN  [type |-> "PairAccept",
         session_id |-> req.session_id,
         device_id |-> OurDeviceId,
         device_name |-> config.device_name,
         ephemeral_pubkey |-> our_ephemeral_pubkey,
         identity_pubkey |-> VerifyingKeyOf(OurSigningKey),
         signature |-> Sign(OurSigningKey, sign_data)]

\* the PairAccept the handler builds, signed over
\* session_id || our ephemeral public key || the peer's ephemeral public key
PairAcceptOf(h) ==
    LET req == msg[h][1]
        our_ephemeral_pubkey == held[h][1].ephemeral_public
        sign_data == UuidAsBytes(req.session_id)
                        \o PublicKeyToBytes(our_ephemeral_pubkey)
                        \o PublicKeyToBytes(req.ephemeral_pubkey)
    IN  [type |-> "PairAccept",
         session_id |-> req.session_id,
         device_id |-> OurDeviceId,
         device_name |-> config.device_name,
         ephemeral_pubkey |-> our_ephemeral_pubkey,
         identity_pubkey |-> VerifyingKeyOf(OurSigningKey),
         signature |-> Sign(OurSigningKey, sign_data)]

\* a variant of the PairedDevice: this device's name in place of the peer's
PairedDeviceNamedAfterUs(h) ==
    [device_id |-> msg[h][1].device_id,
     device_name |-> config.device_name,
     session_key |-> SessionKeyOf(h)]

\* the PairedDevice the handler stores and reports
PairedDeviceOf(h) ==
    [device_id |-> msg[h][1].device_id,
     device_name |-> msg[h][1].device_name,
     session_key |-> SessionKeyOf(h)]

\* write_framed_message(&mut stream, &response_bytes) succeeds
WriteAccept(h) ==
    /\ pc[h] = "write"
    /\ sent' = [sent EXCEPT ![h] = Append(@, PairAcceptOf(h))]
    /\ pc' = [pc EXCEPT ![h] = "insert"]
    /\ UNCHANGED <<config, active_pairing, sessions_created, server_devices, tx, accepted,
                   msg, held, result, api, qr, kx, fr, mr, service>>

\* a variant of the failed write: the handler goes on as if it had written
WriteFailsUnnoticed(h) ==
    /\ pc[h] = "write"
    /\ pc' = [pc EXCEPT ![h] = "insert"]
    /\ UNCHANGED <<config, active_pairing, sessions_created, server_devices, tx, accepted,
                   msg, held, result, sent, api, qr, kx, fr, mr, service>>

\* accept.to_bytes() or write_framed_message fails (the peer is gone): `?` returns
\* the error
WriteFails(h) ==
    /\ pc[h] = "write"
    /\ Finish(h, Err("Network", "write failed"))
    /\ UNCHANGED <<config, active_pairing, sessions_created, server_devices, tx, accepted,
                   msg, held, sent, api, qr, kx, fr, mr, service>>

\* paired_devices.write().await.insert(req.device_id, paired_device.clone())
InsertDevice(h) ==
    /\ pc[h] = "insert"
    /\ server_devices' = [server_devices EXCEPT ![msg[h][1].device_id] = Some(PairedDeviceOf(h))]
    /\ pc' = [pc EXCEPT ![h] = "notify"]
    /\ UNCHANGED <<config, active_pairing, sessions_created, tx, accepted,
                   msg, held, result, sent, api, qr, kx, fr, mr, service>>

\* tx.send(SyncEvent::DevicePaired { device }).await, once the channel has room
NotifyPaired(h) ==
    /\ pc[h] = "notify"
    /\ Len(tx) < SyncChannelCap
    /\ tx' = Append(tx, [type |-> "DevicePaired", device |-> PairedDeviceOf(h), conn |-> h])
    /\ Finish(h, Ok("unit"))
    /\ UNCHANGED <<config, active_pairing, sessions_created, server_devices, accepted,
                   msg, held, sent, api, qr, kx, fr, mr, service>>

\* the ClipboardSync branch: forwarded when the claimed sender is in the table
\* a variant of the ClipboardSync arm: the message is forwarded whoever sent it
LookupSenderOmitted(h) ==
    /\ pc[h] = "lookup"
    /\ Len(tx) < SyncChannelCap
    /\ tx' = Append(tx, [type |-> "MessageReceived",
                         peer_id |-> msg[h][1].sender_id,
                         message |-> msg[h][1], conn |-> h])
    /\ Finish(h, Ok("unit"))
    /\ UNCHANGED <<config, active_pairing, sessions_created, server_devices, accepted,
                   msg, held, sent, api, qr, kx, fr, mr, service>>

LookupSender(h) ==
    /\ pc[h] = "lookup"
    /\ IF server_devices[msg[h][1].sender_id] # None THEN
            /\ Len(tx) < SyncChannelCap
            /\ tx' = Append(tx, [type |-> "MessageReceived",
                                 peer_id |-> msg[h][1].sender_id,
                                 message |-> msg[h][1], conn |-> h])
       ELSE UNCHANGED tx
    /\ Finish(h, Ok("unit"))
    /\ UNCHANGED <<config, active_pairing, sessions_created, server_devices, accepted,
                   msg, held, sent, api, qr, kx, fr, mr, service>>

Handle(h) ==
    \/ ReadFails(h)
    \/ ReadMessage(h)
    \/ TakeSession(h)
    \/ RestoreSession(h)
    \/ WriteAccept(h)
    \/ WriteFails(h)
    \/ InsertDevice(h)
    \/ NotifyPaired(h)
    \/ LookupSender(h)

\* every task runs whenever it can: the handlers interleave at their await points
\* with each other and with the calls of the service API
Next ==
    \/ StartPairing
    \/ GetPairingQrSvg
    \/ Accept
    \/ \E h \in Conns : Handle(h)

Spec == Init /\ [][Next]_vars

(***************************************************************************)
(* The same program with one task at a time: a handler, once its           *)
(* connection is accepted, runs to its return before anything else runs.   *)
(***************************************************************************)
NoHandlerRunning == \A h \in Conns : pc[h] \in {"idle", "done"}

NextSeq ==
    \/ NoHandlerRunning /\ StartPairing
    \/ NoHandlerRunning /\ GetPairingQrSvg
    \/ NoHandlerRunning /\ Accept
    \/ \E h \in Conns : Handle(h)

SpecSeq == Init /\ [][NextSeq]_vars

(***************************************************************************)
(* test_qr_url_roundtrip, over a range of descriptors: a PairingQrData is  *)
(* encoded with to_url and the URL is parsed with from_url.                *)
(***************************************************************************)
\* the characters the texts are made of, each its UTF-8 bytes:
\* '&', '=', '%', ' ', '+', '4' and e-acute
TextChars == {<<38>>, <<61>>, <<37>>, <<32>>, <<43>>, <<52>>, <<195, 169>>}

RECURSIVE TextsOfLen(_)
TextsOfLen(n) ==
    IF n = 0 THEN {<<>>}
    ELSE {c \o t : c \in TextChars, t \in TextsOfLen(n - 1)}

Texts == UNION {TextsOfLen(n) : n \in 0..MaxTextLen}

RECURSIVE Pow(_, _)
Pow(b, e) == IF e = 0 THEN 1 ELSE b * Pow(b, e - 1)

RECURSIVE SeqsOfLen(_, _)
SeqsOfLen(S, n) ==
    IF n = 0 THEN {<<>>}
    ELSE {<<x>> \o t : x \in S, t \in SeqsOfLen(S, n - 1)}

QrInputs ==
    {[session_id |-> u, pubkey |-> k, ip |-> h, port |-> p, name |-> n] :
        u \in {0, Pow(16, UuidHexLen) - 1},
        k \in SeqsOfLen({0, 251}, KeyLen),
        h \in {Ip10, <<37, 52>>},
        p \in {0, U16_MAX},
        n \in Texts}

InitQr ==
    /\ config = [port |-> DEFAULT_PORT, device_name |-> NameMyDevice, local_ip |-> None]
    /\ Fresh
    /\ kx = Idle
    /\ Unused
    /\ qr \in {[stage |-> "data", data |-> d] : d \in QrInputs}

QrToUrl ==
    /\ qr.stage = "data"
    /\ qr' = [stage |-> "url", data |-> qr.data, url |-> ToUrl(qr.data)]
    /\ UNCHANGED <<server_vars, kx, fr, mr, service>>

QrFromUrl ==
    /\ qr.stage = "url"
    /\ qr' = [stage |-> "parsed", data |-> qr.data, url |-> qr.url, parsed |-> FromUrl(qr.url)]
    /\ UNCHANGED <<server_vars, kx, fr, mr, service>>

NextQr == QrToUrl \/ QrFromUrl

SpecQr == InitQr /\ [][NextQr]_vars

(***************************************************************************)
(* test_pairing_key_derivation and test_encrypt_decrypt_roundtrip, over a  *)
(* range of secrets, plaintexts and nonces: two sessions complete with     *)
(* each other's public key, one side encrypts, the other decrypts; then    *)
(* decrypt is given another key or a changed payload.                      *)
(***************************************************************************)
KxSecrets == {2, 3, 9}
Plaintexts == {<<>>, <<104>>, <<104, 105>>}
Nonces == {1, 2}

\* the keys a party other than the two holds: none of them is k
AttackerKeys(k) == {FromSharedSecret(x) : x \in {1, 2}} \ {k}

InitKx ==
    /\ config = [port |-> DEFAULT_PORT, device_name |-> NameMyDevice, local_ip |-> None]
    /\ Fresh
    /\ qr = Idle
    /\ Unused
    /\ kx \in {[stage |-> "sessions",
                session_a |-> NewPairingSession(1, a),
                session_b |-> NewPairingSession(2, b)] : a \in KxSecrets, b \in KxSecrets}

\* key_a = session_a.complete(&pubkey_b); key_b = session_b.complete(&pubkey_a)
KxComplete ==
    /\ kx.stage = "sessions"
    /\ kx' = [stage |-> "keys",
              session_a |-> kx.session_a, session_b |-> kx.session_b,
              key_a |-> Complete(kx.session_a, kx.session_b.ephemeral_public),
              key_b |-> Complete(kx.session_b, kx.session_a.ephemeral_public)]
    /\ UNCHANGED <<server_vars, qr, fr, mr, service>>

\* encrypted = key_a.encrypt(plaintext)
KxEncrypt ==
    /\ kx.stage = "keys"
    /\ \E p \in Plaintexts, n \in Nonces :
        kx' = [stage |-> "encrypted",
               key_a |-> kx.key_a, key_b |-> kx.key_b, plaintext |-> p,
               encrypted |-> SessionKeyEncrypt(kx.key_a, n, p).val]
    /\ UNCHANGED <<server_vars, qr, fr, mr, service>>

\* the payloads a party without the key can make of payload e, sent under key k:
\* any nonce, any body (the counter mode is malleable), and for the tag either the
\* one sent or one computed with a key of its own
Tampered(e, k) ==
    LET bodies == {GcmBody(j, n, p) :
                        j \in {k} \cup AttackerKeys(k), n \in Nonces, p \in Plaintexts}
        tags == {e.ciphertext.tag}
                \cup {GcmTag(j, n, b) : j \in AttackerKeys(k), n \in Nonces, b \in bodies}
    IN  {[nonce |-> n, ciphertext |-> [body |-> b, tag |-> t]] :
            n \in Nonces, b \in bodies, t \in tags}

\* decrypted = key.decrypt(&payload), for the peer's key or another, and for the
\* payload as sent or changed on the way
KxDecrypt ==
    /\ kx.stage = "encrypted"
    /\ \E k \in {kx.key_b} \cup AttackerKeys(kx.key_a),
          e \in {kx.encrypted} \cup Tampered(kx.encrypted, kx.key_a) :
        kx' = [stage |-> "decrypted",
               key_a |-> kx.key_a, key_b |-> kx.key_b,
               plaintext |-> kx.plaintext, encrypted |-> kx.encrypted,
               key |-> k, payload |-> e, decrypted |-> SessionKeyDecrypt(k, e)]
    /\ UNCHANGED <<server_vars, qr, fr, mr, service>>

NextKx == KxComplete \/ KxEncrypt \/ KxDecrypt

SpecKx == InitKx /\ [][NextKx]_vars

(***************************************************************************)
(* from_url on URLs that to_url did not make: the prefix, the five         *)
(* parameters and further ones are put together part by part, each value   *)
(* known to be well-formed or not, and parameters with other keys are      *)
(* added to the URL that to_url writes, in either order of its parameters.  *)
(***************************************************************************)
Param(key, value, good) == [key |-> key, value |-> value, good |-> good]

\* "omniclip://pair?", the same without '?', and nothing
UrlPrefixes == {UrlPrefix, SubSeq(UrlPrefix, 1, Len(UrlPrefix) - 1), <<>>}

FiveKeys == {<<L("s")>>, <<L("k")>>, <<L("h")>>, <<L("p")>>, <<L("n")>>}

\* The parameters the URLs are made of, by key.
\* s: hyphenated and simple are UUIDs; one digit short and a non-hex digit are not.
\* k: the key; a byte short, a byte long, padded with '=', and with the '+' of the
\*    standard alphabet.
\* p: "8080" and "+8080" are ports; "65536", "-1", "" and "80a" are not.
\* extra: a second value for a key that may be there already.
\* unknown: keys that are none of the five: "x=1", "ss=<a uuid>", "S=z", "=v",
\*    "%73=z" and "x=a=b".
\* five: the five parameters as to_url writes them.
UrlParams ==
    LET id == Pow(16, UuidHexLen) - 2
        key == [i \in 1..KeyLen |-> 251]
        port == <<56, 48, 56, 48>>
        s1 == Param(<<L("s")>>, UuidFormat(id), TRUE)
        k1 == Param(<<L("k")>>, Base64UrlEncode(key), TRUE)
        k2 == Param(<<L("k")>>, Base64UrlEncode(Tail(key)), FALSE)
        h1 == Param(<<L("h")>>, UrlEncode(Ip10), TRUE)
        p1 == Param(<<L("p")>>, port, TRUE)
        n1 == Param(<<L("n")>>, UrlEncode(NameSymbols), TRUE)
        x1 == Param(<<L("x")>>, <<49>>, TRUE)
    IN  [s |-> {s1,
                Param(<<L("s")>>, HexFixed(id, UuidHexLen), TRUE),
                Param(<<L("s")>>, HexFixed(1, UuidHexLen - 1), FALSE),
                Param(<<L("s")>>, <<L("z")>> \o Tail(UuidFormat(id)), FALSE)},
         k |-> {k1, k2,
                Param(<<L("k")>>, Base64UrlEncode(key \o <<0>>), FALSE),
                Param(<<L("k")>>, Base64UrlEncode(key) \o <<Ch["="]>>, FALSE),
                Param(<<L("k")>>, <<Ch["+"]>> \o Tail(Base64UrlEncode(key)), FALSE)},
         h |-> {h1},
         p |-> {p1,
                Param(<<L("p")>>, <<Ch["+"]>> \o port, TRUE),
                Param(<<L("p")>>, <<54, 53, 53, 51, 54>>, FALSE),
                Param(<<L("p")>>, <<Ch["-"], 49>>, FALSE),
                Param(<<L("p")>>, <<>>, FALSE),
                Param(<<L("p")>>, <<56, 48, L("a")>>, FALSE)},
         n |-> {n1},
         extra |-> {k1, k2, p1, x1},
         unknown |-> {x1,
                      Param(<<L("s"), L("s")>>, UuidFormat(id), TRUE),
                      Param(<<83>>, <<L("z")>>, TRUE),
                      Param(<<>>, <<L("v")>>, TRUE),
                      Param(<<Ch["%"], 55, 51>>, <<L("z")>>, TRUE),
                      Param(<<L("x")>>, <<L("a"), Ch["="], L("b")>>, TRUE)},
         five |-> <<s1, k1, h1, p1, n1>>]

\* none or one of a set of parameters
Maybe(S) == {<<>>} \cup {<<x>> : x \in S}

UrlPartLists ==
    LET five == {s \o k \o h \o p \o n :
                    s \in Maybe(UrlParams.s), k \in Maybe(UrlParams.k),
                    h \in Maybe(UrlParams.h), p \in Maybe(UrlParams.p),
                    n \in Maybe(UrlParams.n)}
        more == {f \o e : f \in five, e \in Maybe(UrlParams.extra)}
    IN  more \cup {Reverse(m) : m \in more}

\* the text of a query: key=value of each parameter, '&' between them
RECURSIVE JoinParams(_)
JoinParams(parts) ==
    IF parts = <<>> THEN <<>>
    ELSE Head(parts).key \o <<Ch["="]>> \o Head(parts).value
         \o (IF Len(parts) > 1 THEN <<Ch["&"]>> \o JoinParams(Tail(parts)) ELSE <<>>)

InitUrl ==
    /\ config = [port |-> DEFAULT_PORT, device_name |-> NameMyDevice, local_ip |-> None]
    /\ Fresh
    /\ kx = Idle
    /\ Unused
    /\ qr \in {[stage |-> "built", pre |-> pre, parts |-> parts] :
                pre \in UrlPrefixes, parts \in UrlPartLists}

\* PairingQrData::from_url(pre ++ query)
UrlParse ==
    /\ qr.stage = "built"
    /\ LET r == FromUrl(qr.pre \o JoinParams(qr.parts))
       IN  qr' = [stage |-> "parsed", pre |-> qr.pre, parts |-> qr.parts,
                  parsed |-> r, base |-> r, added |-> 0]
    /\ UNCHANGED <<server_vars, kx, fr, mr, service>>

\* PairingQrData::from_url of a URL that parsed, with one more parameter in it
UrlAddUnknown ==
    /\ qr.stage = "parsed"
    /\ qr.parsed.ok
    /\ qr.added < MaxUnknown
    /\ qr.added = 0 => qr.parts \in {UrlParams.five, Reverse(UrlParams.five)}
    /\ \E i \in 0..Len(qr.parts), u \in UrlParams.unknown :
        LET parts == SubSeq(qr.parts, 1, i) \o <<u>> \o Drop(qr.parts, i)
        IN  qr' = [qr EXCEPT !.parts = parts,
                             !.parsed = FromUrl(qr.pre \o JoinParams(parts)),
                             !.added = qr.added + 1]
    /\ UNCHANGED <<server_vars, kx, fr, mr, service>>

NextUrl == UrlParse \/ UrlAddUnknown

SpecUrl == InitUrl /\ [][NextUrl]_vars

(***************************************************************************)
(* The framing tests, over a range of payloads and of inbound streams: a   *)
(* payload is sent by one of the send paths into an empty buffer, bytes    *)
(* follow it, and the stream is read by one of the receive paths; inbound  *)
(* streams that no send path wrote are read too, also by the server's      *)
(* connection handler.                                                     *)
(***************************************************************************)
\* payloads: none, "Hi", 255, 256 and 65536 equal bytes, the limit exactly (all
\* zero, and with a last byte that differs), one byte over it, twice the limit.
\* after: what follows a frame in the stream.
\* streams: prefixes ff ff ff ff, 80 00 00 00, 7f ff ff ff and 00 a0 00 01 (one
\* over the limit) with bytes after them, or none; 00 a0 00 00 (the limit) with
\* the payload and one byte more, and with five bytes only; half a prefix.
FrameInputs ==
    LET run(b, n) == [b |-> b, n |-> n]
    IN  [payloads |-> {<<>>,
                       <<run(72, 1), run(105, 1)>>,
                       <<run(0, 255)>>, <<run(1, 256)>>, <<run(2, 65536)>>,
                       <<run(0, MAX_MESSAGE_SIZE)>>,
                       <<run(7, MAX_MESSAGE_SIZE - 1), run(9, 1)>>,
                       <<run(0, MAX_MESSAGE_SIZE + 1)>>,
                       <<run(255, 2 * MAX_MESSAGE_SIZE)>>},
         after |-> {<<>>, <<run(0, 1)>>, <<run(0, 4), run(1, 1)>>},
         streams |-> {<<run(255, 7)>>,
                      <<run(128, 1), run(0, 3), run(5, 9)>>,
                      <<run(127, 1), run(255, 3)>>,
                      <<run(0, 1), run(160, 1), run(0, 1), run(1, 1)>>,
                      <<run(0, 1), run(160, 1), run(0, 1), run(1, 1),
                        run(3, MAX_MESSAGE_SIZE + 1)>>,
                      <<run(0, 1), run(160, 1), run(0, 2), run(4, MAX_MESSAGE_SIZE + 1)>>,
                      <<run(0, 1), run(160, 1), run(0, 2), run(4, 5)>>,
                      <<run(0, 2)>>}]

InitFrame ==
    /\ config = [port |-> DEFAULT_PORT, device_name |-> NameMyDevice, local_ip |-> None]
    /\ Fresh
    /\ qr = Idle /\ kx = Idle /\ mr = Idle /\ service = NewService
    /\ fr \in {[stage |-> "payload", payload |-> p, after |-> a] :
                    p \in FrameInputs.payloads, a \in FrameInputs.after}
              \cup {[stage |-> "incoming", stream |-> t] : t \in FrameInputs.streams}

\* a send path writes the payload into an empty buffer; then `after` arrives
FrSend ==
    /\ fr.stage = "payload"
    /\ \E path \in {"write_framed_message", "PeerConnection::send",
                    "PeerConnectionWriter::send"} :
        LET w == IF path = "write_framed_message"
                 THEN WriteFramedMessage(<<>>, fr.payload)
                 ELSE PeerConnectionSend(<<>>, fr.payload)
        IN  fr' = [stage |-> "sent", path |-> path, payload |-> fr.payload,
                   result |-> w.result, out |-> w.out,
                   stream |-> BytesCanon(w.out \o fr.after)]
    /\ UNCHANGED <<server_vars, qr, kx, mr, service>>

\* a receive path reads one frame from the stream
FrReceive ==
    /\ fr.stage \in {"sent", "incoming"}
    /\ \E path \in {"read_framed_message", "PeerConnection::recv",
                    "PeerConnectionReader::recv"} :
        LET r == IF path = "read_framed_message"
                 THEN ReadFramedMessage(fr.stream)
                 ELSE PeerConnectionRecv(fr.stream)
        IN  fr' = [stage |-> "received", path |-> path, from |-> fr,
                   result |-> r.result, rest |-> r.rest, allocated |-> r.allocated]
    /\ UNCHANGED <<server_vars, qr, kx, mr, service>>

\* the accept loop takes the connection the stream arrives on and its handler runs:
\* read_framed_message(&mut stream).await? and Message::from_bytes(&payload)?,
\* whose argument here is never a message
FrServe ==
    /\ fr.stage = "incoming"
    /\ accepted = 0
    /\ accepted' = 1
    /\ LET r == ReadFramedMessage(fr.stream)
       IN  /\ Finish(1, IF r.result.ok THEN Err("Serialization", "malformed payload")
                        ELSE r.result)
           /\ fr' = [stage |-> "served", path |-> "read_framed_message", from |-> fr,
                     result |-> r.result, rest |-> r.rest, allocated |-> r.allocated]
    /\ UNCHANGED <<config, active_pairing, sessions_created, server_devices, tx,
                   msg, held, sent, api, qr, kx, mr, service>>

NextFrame == FrSend \/ FrReceive \/ FrServe

SpecFrame == InitFrame /\ [][NextFrame]_vars

(***************************************************************************)
(* The message test, over values of every variant: a message is            *)
(* serialized with to_bytes and the bytes are given to from_bytes.         *)
(***************************************************************************)
\* the field values drawn.  Strings: empty, "My Device", two-byte UTF-8, a quote,
\* a backslash and n, newline and tab, control characters, 'a"},' and "/" with DEL
WireValues ==
    LET fill(n, b) == [i \in 1..n |-> b]
        mixed(n) == [i \in 1..n |-> (i * 83 + 168) % 256]
    IN  [uuid |-> {0, 43981, Pow(16, UuidHexLen) - 1},
         string |-> {<<>>, NameMyDevice, NameZoe, <<34>>, <<92, 110>>, <<10, 9>>,
                     <<1, 31>>, <<97, 34, 125, 44>>, <<47, 127>>},
         key |-> {fill(KeyLen, 0), fill(KeyLen, 255), mixed(KeyLen)},
         nonce |-> {fill(NonceLen, 0), mixed(NonceLen)},
         bytes |-> {<<>>, <<1>>, <<250, 251, 252, 253>>, mixed(5)},
         u16 |-> {0, 1, U16_MAX},
         u64 |-> {0, 1700000000, 2147483647}]

WireMessages ==
    LET V == WireValues
    IN  {[type |-> "Announce", device_id |-> u, device_name |-> n,
          pubkey_fingerprint |-> f, protocol_version |-> v] :
            u \in V.uuid, n \in V.string, f \in {<<>>, <<97, 98, 99, 49, 50, 51>>},
            v \in V.u16}
        \cup {[type |-> "PairRequest", session_id |-> u, device_id |-> 43981,
               device_name |-> n, ephemeral_pubkey |-> e, identity_pubkey |-> k] :
            u \in V.uuid, n \in V.string, e \in V.key, k \in V.key}
        \cup {[type |-> "PairAccept", session_id |-> 43981, device_id |-> 0,
               device_name |-> n, ephemeral_pubkey |-> e,
               identity_pubkey |-> [i \in 1..KeyLen |-> 7], signature |-> g] :
            n \in {NameMyDevice, NameZoe}, e \in V.key, g \in V.bytes}
        \cup {[type |-> "PairReject", session_id |-> u, reason |-> n] :
            u \in V.uuid, n \in V.string}
        \cup {[type |-> "ClipboardSync", message_id |-> u, sender_id |-> 43981,
               content_hash |-> k,
               encrypted_content |-> [nonce |-> o, ciphertext |-> c],
               timestamp |-> t] :
            u \in V.uuid, k \in V.key, o \in V.nonce, c \in V.bytes, t \in V.u64}
        \cup {[type |-> "Ack", message_id |-> u] : u \in V.uuid}
        \cup {[type |-> t, timestamp |-> v] : t \in {"Ping", "Pong"}, v \in V.u64}

InitMsg ==
    /\ config = [port |-> DEFAULT_PORT, device_name |-> NameMyDevice, local_ip |-> None]
    /\ Fresh
    /\ qr = Idle /\ kx = Idle /\ fr = Idle /\ service = NewService
    /\ mr \in {[stage |-> "message", m |-> m] : m \in WireMessages}

\* let bytes = msg.to_bytes().unwrap();
MrToBytes ==
    /\ mr.stage = "message"
    /\ mr' = [stage |-> "bytes", m |-> mr.m, bytes |-> MessageToBytes(mr.m)]
    /\ UNCHANGED <<server_vars, qr, kx, fr, service>>

\* let decoded = Message::from_bytes(&bytes);
MrFromBytes ==
    /\ mr.stage = "bytes"
    /\ mr' = [stage |-> "decoded", m |-> mr.m, bytes |-> mr.bytes,
              decoded |-> MessageFromBytes(mr.bytes)]
    /\ UNCHANGED <<server_vars, qr, kx, fr, service>>

NextMsg == MrToBytes \/ MrFromBytes

SpecMsg == InitMsg /\ [][NextMsg]_vars

(***************************************************************************)
(* The server-event relay of OmniclipService::start: the task that takes   *)
(* the events of the server's channel one by one, while events are put    *)
(* into the channel; service.seen lists those the relay took.              *)
(***************************************************************************)
\* a variant of the ClipboardSync arm: what was sent is surfaced decrypted or not
RelayClipboardSyncUnchecked(svc, peer_id, sync_msg) ==
    [svc EXCEPT !.tx = Append(@, [type |-> "ClipboardReceived", from_device |-> peer_id,
                                  content |-> sync_msg.encrypted_content.ciphertext.body.pt])]

\* a variant of the ClipboardSync arm: the payload is tried under the key of every
\* paired device, and surfaced under the sender id the message claims
RelayClipboardSyncAnyKey(svc, peer_id, sync_msg) ==
    Bind({d \in DeviceIds :
            /\ svc.paired_devices[d] # None
            /\ SessionKeyDecrypt(svc.paired_devices[d][1].session_key,
                                 sync_msg.encrypted_content).ok},
         LAMBDA owners :
        IF owners = {} THEN svc
        ELSE Bind(ClipboardContentFromBytes(
                    SessionKeyDecrypt(svc.paired_devices[CHOOSE d \in owners : TRUE][1].session_key,
                                      sync_msg.encrypted_content).val),
                  LAMBDA content :
                IF ~content.ok THEN svc
                ELSE [svc EXCEPT !.tx = Append(@, [type |-> "ClipboardReceived",
                                                   from_device |-> peer_id,
                                                   content |-> content.val])]))

\* the ClipboardSync arm: look the peer up, decrypt, parse, send ClipboardReceived
RelayClipboardSync(svc, peer_id, sync_msg) ==
    Bind(svc.paired_devices[peer_id], LAMBDA device :
        IF device = None THEN svc
        ELSE Bind(SessionKeyDecrypt(device[1].session_key, sync_msg.encrypted_content),
                  LAMBDA decrypted :
            IF ~decrypted.ok THEN svc
            ELSE Bind(ClipboardContentFromBytes(decrypted.val), LAMBDA content :
                IF ~content.ok THEN svc
                ELSE [svc EXCEPT !.tx = Append(@, [type |-> "ClipboardReceived",
                                                   from_device |-> peer_id,
                                                   content |-> content.val])])))

\* the events drawn: device 21 paired with key k, device 22 paired with another
\* key; ClipboardSync from 21 under k
\* with a Text and a RichText, under another key, with the body of another
\* message under the first one's tag, with plaintexts that are no
\* ClipboardContent; a ClipboardSync from 22; a PairRequest; a Ping; a
\* PeerDisconnected
RelayEvents ==
    LET k == FromSharedSecret(5)
        sync(peer, key, nonce, plaintext) ==
            [type |-> "MessageReceived", peer_id |-> peer,
             message |-> [type |-> "ClipboardSync", sender_id |-> peer,
                          encrypted_content |-> SessionKeyEncrypt(key, nonce, plaintext).val]]
        hi == ClipboardContentToBytes([type |-> "Text", text |-> <<104, 105>>])
        rich == ClipboardContentToBytes([type |-> "RichText", plain |-> <<34>>,
                                         html |-> <<60, 98, 62>>])
    IN  {[type |-> "DevicePaired",
          device |-> [device_id |-> 21, device_name |-> <<66>>, session_key |-> k]],
         [type |-> "DevicePaired",
          device |-> [device_id |-> 22, device_name |-> <<67>>,
                      session_key |-> FromSharedSecret(8)]],
         sync(21, k, 1, hi),
         sync(21, k, 2, rich),
         sync(21, FromSharedSecret(8), 1, hi),
         [sync(21, k, 1, hi) EXCEPT
            !.message.encrypted_content.ciphertext.body = GcmBody(k, 1, rich)],
         sync(21, k, 1, <<104, 105>>),
         sync(21, k, 1, SubSeq(hi, 1, Len(hi) - 1)),
         sync(22, k, 1, hi),
         [type |-> "MessageReceived", peer_id |-> 22,
          message |-> [type |-> "PairRequest", device_id |-> 22, device_name |-> <<67>>]],
         [type |-> "MessageReceived", peer_id |-> 21, message |-> [type |-> "Ping"]],
         [type |-> "PeerDisconnected", peer_id |-> 21]}

InitRelay ==
    /\ config = [port |-> DEFAULT_PORT, device_name |-> NameMyDevice, local_ip |-> None]
    /\ Fresh
    /\ qr = Idle /\ kx = Idle
    /\ Unused

\* an event is put into the server's channel: tx.send(event).await
ServerSends ==
    /\ Len(service.seen) + Len(tx) < MaxEvents
    /\ \E event \in RelayEvents : tx' = Append(tx, event)
    /\ UNCHANGED <<config, active_pairing, sessions_created, server_devices, accepted,
                   pc, msg, held, result, sent, api, qr, kx, fr, mr, service>>

\* a variant of the relay: a DevicePaired is announced and no entry is stored
RelayAnnouncesOnly ==
    /\ service.relay = "running"
    /\ tx # <<>>
    /\ tx' = Tail(tx)
    /\ LET event == Head(tx)
           svc == [service EXCEPT !.seen = Append(@, event)]
       IN  service' =
             IF event.type = "DevicePaired" THEN
                [svc EXCEPT
                    !.tx = Append(@, [type |-> "PairingRequest",
                                      device_id |-> event.device.device_id,
                                      device_name |-> event.device.device_name])]
             ELSE svc
    /\ UNCHANGED <<config, active_pairing, sessions_created, server_devices, accepted,
                   pc, msg, held, result, sent, api, qr, kx, fr, mr>>

\* one turn of `while let Some(event) = server_rx.recv().await`.  The sends into
\* the service's channel of 64 never wait here; last_seen is not kept.  The insert
\* of a DevicePaired waits for the table's write lock while the clipboard task
\* holds its read lock
Relay ==
    /\ service.relay = "running"
    /\ tx # <<>>
    /\ Head(tx).type = "DevicePaired" => service.clip = None
    /\ tx' = Tail(tx)
    /\ LET event == Head(tx)
           svc == [service EXCEPT !.seen = Append(@, event)]
       IN  service' =
             IF event.type = "DevicePaired" THEN
                [svc EXCEPT
                    !.paired_devices[event.device.device_id] =
                        Some([device_id |-> event.device.device_id,
                              device_name |-> event.device.device_name,
                              session_key |-> event.device.session_key]),
                    !.tx = Append(@, [type |-> "PairingRequest",
                                      device_id |-> event.device.device_id,
                                      device_name |-> event.device.device_name])]
             ELSE IF event.type = "MessageReceived" /\ event.message.type = "PairRequest" THEN
                [svc EXCEPT !.tx = Append(@, [type |-> "PairingRequest",
                                              device_id |-> event.message.device_id,
                                              device_name |-> event.message.device_name])]
             ELSE IF event.type = "MessageReceived" /\ event.message.type = "ClipboardSync" THEN
                RelayClipboardSync(svc, event.peer_id, event.message)
             ELSE svc
    /\ UNCHANGED <<config, active_pairing, sessions_created, server_devices, accepted,
                   pc, msg, held, result, sent, api, qr, kx, fr, mr>>

NextRelay == ServerSends \/ Relay

SpecRelay == InitRelay /\ [][NextRelay]_vars

(***************************************************************************)
(* ClipboardContent::hash, and test_content_hash_consistency and           *)
(* test_content_hash_different over a range of pairs of contents.          *)
(***************************************************************************)
\* b"text:" and b"rich:"
TagText == <<116, 101, 120, 116, 58>>
TagRich == <<114, 105, 99, 104, 58>>

\* a variant of the digest input: the content's strings with no type tag
DigestInputUntagged(c) ==
    IF c.type = "Text" THEN c.text ELSE c.plain \o c.html

\* what the hasher is fed: each hasher.update appends its bytes
DigestInput(c) ==
    IF c.type = "Text" THEN TagText \o c.text
    ELSE TagRich \o c.plain \o c.html

\* ClipboardContent::hash: ContentHash(hasher.finalize().into())
ContentHashOf(c) == Sha256(DigestInput(c))

HashStrings == UNION {SeqsOfLen({97, 98}, n) : n \in 0..MaxHashLen}

HashContents ==
    {[type |-> "Text", text |-> t] : t \in HashStrings}
    \cup {[type |-> "RichText", plain |-> p, html |-> h] :
            p \in HashStrings, h \in {t \in HashStrings : Len(t) < MaxHashLen}}

InitHash ==
    /\ config = [port |-> DEFAULT_PORT, device_name |-> NameMyDevice, local_ip |-> None]
    /\ Fresh
    /\ qr = Idle /\ kx = Idle /\ fr = Idle /\ service = NewService
    /\ mr \in {[stage |-> "contents", a |-> a, b |-> b] : a, b \in HashContents}

\* let hash1 = content.hash(); let hash2 = content.hash(); and the other content's
HashBoth ==
    /\ mr.stage = "contents"
    /\ mr' = [stage |-> "hashed", a |-> mr.a, b |-> mr.b,
              fed_a |-> DigestInput(mr.a), fed_b |-> DigestInput(mr.b),
              hash1 |-> ContentHashOf(mr.a), hash2 |-> ContentHashOf(mr.a),
              hash_b |-> ContentHashOf(mr.b)]
    /\ UNCHANGED <<server_vars, qr, kx, fr, service>>

NextHash == HashBoth

SpecHash == InitHash /\ [][NextHash]_vars

(***************************************************************************)
(* The clipboard task of OmniclipService::start, get_paired_devices and    *)
(* unpair_device, while the relay fills the service's table.               *)
(***************************************************************************)
\* what the monitor can deliver: ClipboardManager::read yields non-empty Text only
ClipContents ==
    {[type |-> "Text", text |-> <<104, 105>>], [type |-> "Text", text |-> <<104, 111>>]}

\* the devices of a table
PairedIds(table) == {d \in DeviceIds : table[d] # None}

\* the orders in which devices.iter() may visit the table
IterOrders(table) ==
    {s \in SeqsOfLen(PairedIds(table), Cardinality(PairedIds(table))) :
        {s[i] : i \in 1..Len(s)} = PairedIds(table)}

\* the Message::ClipboardSync built for one device; message_id and timestamp are
\* not kept
ClipboardSyncFor(device, change, nonce) ==
    [type |-> "ClipboardSync",
     sender_id |-> OurDeviceId,
     content_hash |-> change.hash,
     encrypted_content |->
        SessionKeyEncrypt(device.session_key, nonce,
                          ClipboardContentToBytes(change.content)).val]

\* a variant of the turn: a change is taken whatever the last-sent hash is
TakeChangeNoSkip(svc, change, order, nonce) ==
    Bind([svc EXCEPT !.changes = @ + 1], LAMBDA seen :
        IF order = <<>> THEN [seen EXCEPT !.change = Some(<<change, "no device">>)]
        ELSE [seen EXCEPT
                !.change = Some(<<change, "built">>),
                !.last_sent_hash = Some(change.hash),
                !.clip = Some([hash |-> change.hash,
                               sent_to |-> order,
                               built |-> [i \in 1..Len(order) |->
                                    ClipboardSyncFor(svc.paired_devices[order[i]][1],
                                                     change, nonce[order[i]])]])])

\* a variant of the turn: the hash is not recorded before the report
TakeChangeRecordsNothing(svc, change, order, nonce) ==
    Bind([svc EXCEPT !.changes = @ + 1], LAMBDA seen :
        IF svc.last_sent_hash = Some(change.hash)
        THEN [seen EXCEPT !.change = Some(<<change, "skipped">>)]
        ELSE IF order = <<>> THEN [seen EXCEPT !.change = Some(<<change, "no device">>)]
        ELSE [seen EXCEPT
                !.change = Some(<<change, "built">>),
                !.clip = Some([hash |-> change.hash,
                               sent_to |-> order,
                               built |-> [i \in 1..Len(order) |->
                                    ClipboardSyncFor(svc.paired_devices[order[i]][1],
                                                     change, nonce[order[i]])]])])

\* one turn of `while let Some(change) = clip_rx.recv().await` up to the write of
\* last_sent: the skip, the loop over the table, the record of the hash.  The
\* messages built are locals of the loop (clip.built); the read lock on the table
\* is held until the turn ends.  svc.change is the change taken and the way the
\* turn went
TakeChange(svc, change, order, nonce) ==
    Bind([svc EXCEPT !.changes = @ + 1], LAMBDA seen :
        IF svc.last_sent_hash = Some(change.hash)
        THEN [seen EXCEPT !.change = Some(<<change, "skipped">>)]
        ELSE IF order = <<>> THEN [seen EXCEPT !.change = Some(<<change, "no device">>)]
        ELSE [seen EXCEPT
                !.change = Some(<<change, "built">>),
                !.last_sent_hash = Some(change.hash),
                !.clip = Some([hash |-> change.hash,
                               sent_to |-> order,
                               built |-> [i \in 1..Len(order) |->
                                    ClipboardSyncFor(svc.paired_devices[order[i]][1],
                                                     change, nonce[order[i]])]])])

\* the turn, for the first `limit` changes the monitor delivers
ClipboardChangedWithin(limit) ==
    /\ service.clip = None
    /\ service.changes < limit
    /\ \E content \in ClipContents, order \in IterOrders(service.paired_devices),
          nonce \in [DeviceIds -> Nonces] :
            service' = TakeChange(service,
                                  [content |-> content, hash |-> ContentHashOf(content)],
                                  order, nonce)
    /\ UNCHANGED <<server_vars, qr, kx, fr, mr>>

ClipboardChanged == ClipboardChangedWithin(MaxChanges)

\* the end of a turn that built something:
\* tx_clipboard.send(ServiceEvent::ClipboardSent { to_devices: sent_to }).await,
\* which waits while the channel is full, the table's read lock still held;
\* the messages built are dropped with the turn
ClipboardReport ==
    /\ service.clip # None
    /\ Len(service.tx) < ServiceChannelCap
    /\ service' = [service EXCEPT
                    !.tx = Append(@, [type |-> "ClipboardSent",
                                      to_devices |-> service.clip[1].sent_to]),
                    !.clip = None]
    /\ UNCHANGED <<server_vars, qr, kx, fr, mr>>

\* OmniclipService::get_paired_devices, as the set of ids it lists
GetPairedDevices(svc) == PairedIds(svc.paired_devices)

\* the handshakes for device d that have stored d in the server's table
Handshakes(d) ==
    {h \in Conns : /\ msg[h] # None /\ msg[h][1].type = "PairRequest"
                   /\ msg[h][1].device_id = d
                   /\ \/ pc[h] = "notify"
                      \/ pc[h] = "done" /\ result[h][1].ok}

\* the DevicePaired events of d the relay has taken
PairingsRelayed(svc, d) ==
    {i \in 1..Len(svc.seen) :
        svc.seen[i].type = "DevicePaired" /\ svc.seen[i].device.device_id = d}

\* OmniclipService::unpair_device: self.paired_devices.write().await.remove(&device_id).
\* service.unpaired[d] keeps what had happened when the call returned: the
\* handshakes of d so far, the DevicePaired events of d the relay had taken, and the
\* number of ServiceEvents so far
UnpairDevice ==
    /\ service.clip = None
    /\ \E d \in DeviceIds :
        service' = [service EXCEPT
                        !.paired_devices[d] = None,
                        !.unpaired[d] = Some([handshakes |-> Handshakes(d),
                                              relayed |-> PairingsRelayed(service, d),
                                              events |-> Len(service.tx)])]
    /\ UNCHANGED <<server_vars, qr, kx, fr, mr>>

\* the DevicePaired events the server may send the relay
PairedEvents ==
    {[type |-> "DevicePaired",
      device |-> [device_id |-> r.device_id, device_name |-> r.device_name,
                  session_key |-> FromSharedSecret(r.secret)]] : r \in Requesters}

\* a handshake ends: tx.send(SyncEvent::DevicePaired { device }).await
ServerPairs ==
    /\ Len(service.seen) + Len(tx) < MaxEvents
    /\ \E event \in PairedEvents : tx' = Append(tx, event)
    /\ UNCHANGED <<config, active_pairing, sessions_created, server_devices, accepted,
                   pc, msg, held, result, sent, api, qr, kx, fr, mr, service>>

NextClip ==
    \/ ServerPairs
    \/ Relay
    \/ ClipboardChanged
    \/ ClipboardReport
    \/ UnpairDevice

SpecClip == InitRelay /\ [][NextClip]_vars

(***************************************************************************)
(* The server with the service around it: the handlers, the relay that     *)
(* takes their events, unpair_device, and SyncServerHandle::abort.         *)
(***************************************************************************)
\* SyncServerHandle::abort: self.task.abort() ends the accept loop's task.  The
\* handlers were spawned by tokio::spawn as tasks of their own and run on
Abort ==
    /\ service.server = "running"
    /\ service' = [service EXCEPT !.server = "aborted"]
    /\ UNCHANGED <<server_vars, qr, kx, fr, mr>>

NextSys ==
    \/ Next
    \/ Relay
    \/ UnpairDevice
    \/ Abort

SpecSys == InitRelay /\ [][NextSys]_vars

(***************************************************************************)
(* The table's lock and the ServiceEvent channel: the clipboard task, and  *)
(* the task that holds the receiver OmniclipService::start returned, which *)
(* takes events and calls unpair_device.                                   *)
(***************************************************************************)
\* the device the consumer unpairs
LockDevice == 21

\* the handshake of LockDevice ends
ServerPairsOne ==
    /\ service.seen = <<>> /\ tx = <<>>
    /\ \E event \in PairedEvents :
        /\ event.device.device_id = LockDevice
        /\ tx' = Append(tx, event)
    /\ UNCHANGED <<config, active_pairing, sessions_created, server_devices, accepted,
                   pc, msg, held, result, sent, api, qr, kx, fr, mr, service>>

\* enough changes to fill the channel and start one more turn
ClipboardChangedOften == ClipboardChangedWithin(ServiceChannelCap + 1)

\* rx.recv().await in the consumer
ConsumerRecv ==
    /\ service.consumer = "idle"
    /\ service.tx # <<>>
    /\ service' = [service EXCEPT !.tx = Tail(@)]
    /\ UNCHANGED <<server_vars, qr, kx, fr, mr>>

\* the consumer calls unpair_device and waits in self.paired_devices.write().await
CallUnpair ==
    /\ service.consumer = "idle"
    /\ service.unpaired[LockDevice] = None
    /\ service' = [service EXCEPT !.consumer = "unpair_device"]
    /\ UNCHANGED <<server_vars, qr, kx, fr, mr>>

\* no reader holds the table: the write lock is granted, the entry removed, and
\* the call returns
UnpairReturns ==
    /\ service.consumer = "unpair_device"
    /\ service.clip = None
    /\ service' = [service EXCEPT
                        !.consumer = "idle",
                        !.paired_devices[LockDevice] = None,
                        !.unpaired[LockDevice] =
                            Some([handshakes |-> Handshakes(LockDevice),
                                  relayed |-> PairingsRelayed(service, LockDevice),
                                  events |-> Len(service.tx)])]
    /\ UNCHANGED <<server_vars, qr, kx, fr, mr>>

NextLock ==
    \/ ServerPairsOne
    \/ Relay
    \/ ClipboardChangedOften
    \/ ClipboardReport
    \/ ConsumerRecv
    \/ CallUnpair
    \/ UnpairReturns

SpecLock == InitRelay /\ [][NextLock]_vars

(***************************************************************************)
(* The handlers and the relay, scheduled fairly: the runtime runs every    *)
(* task that is ready, so no handler and no relay turn that can be taken   *)
(* is put off for ever.                                                    *)
(***************************************************************************)
NextLive ==
    \/ StartPairing
    \/ Accept
    \/ \E h \in Conns : Handle(h)
    \/ Relay

SpecLive ==
    /\ InitRelay
    /\ [][NextLive]_vars
    /\ \A h \in Conns : WF_vars(Handle(h))
    /\ WF_vars(Relay)

(***************************************************************************)
(* A PeerConnection next to the framing module.  The TcpStream of the      *)
(* connection is what it has still to deliver (inbound) and what was       *)
(* written into it (outbound); `plain` is the same stream read with        *)
(* read_framed_message and Message::from_bytes, and written by a           *)
(* connection that is never split.                                         *)
(***************************************************************************)
MaxRecvs == 3
MaxSends == 2

\* two run sequences one after the other, the runs that meet joined when they hold
\* the same byte
BytesJoin(s, t) ==
    IF s = <<>> \/ t = <<>> THEN s \o t
    ELSE IF s[Len(s)].b = t[1].b
        THEN SubSeq(s, 1, Len(s) - 1)
             \o <<[b |-> t[1].b, n |-> s[Len(s)].n + t[1].n]>> \o Tail(t)
    ELSE s \o t

\* the bytes of a run sequence one by one, and the runs of a byte sequence
RECURSIVE RunsToBytes(_)
RunsToBytes(s) ==
    IF Len(s) = 0 THEN <<>>
    ELSE IF Len(s) = 1 THEN [i \in 1..s[1].n |-> s[1].b] \o <<>>
    ELSE LET half == Len(s) \div 2
         IN  RunsToBytes(SubSeq(s, 1, half)) \o RunsToBytes(SubSeq(s, half + 1, Len(s)))

RECURSIVE BytesToRuns(_)
BytesToRuns(bytes) ==
    IF Len(bytes) = 0 THEN <<>>
    ELSE IF Len(bytes) = 1 THEN <<[b |-> bytes[1], n |-> 1]>>
    ELSE LET half == Len(bytes) \div 2
         IN  BytesJoin(BytesToRuns(SubSeq(bytes, 1, half)),
                       BytesToRuns(SubSeq(bytes, half + 1, Len(bytes))))

\* Message::to_frame: the length of to_bytes in four bytes, then the bytes
MessageToFrame(message) ==
    LET payload == BytesToRuns(MessageToBytes(message))
    IN  BytesJoin(U32ToBeBytes(BytesLen(payload)), payload)

\* the handler's two lines: read_framed_message(&mut stream).await? and
\* Message::from_bytes(&payload)?, the serde_json::Error becoming
\* Error::Serialization
ReadFramedThenFromBytes(stream) ==
    LET r == ReadFramedMessage(stream)
    IN  [result |-> IF r.result.ok THEN MessageFromBytes(RunsToBytes(r.result.val))
                    ELSE r.result,
         rest |-> r.rest]

\* PeerConnection::recv
PeerConnectionRecvMessage(stream) ==
    LET len_buf == ReadExact(stream, 4)
        len == U32FromBeBytes(len_buf.result.val)
        payload == ReadExact(len_buf.rest, len)
    IN  IF ~len_buf.result.ok
            THEN [result |-> len_buf.result, rest |-> len_buf.rest]
        ELSE IF len > 10 * 1024 * 1024
            THEN [result |-> InvalidMessage("message too large"), rest |-> len_buf.rest]
        ELSE IF ~payload.result.ok
            THEN [result |-> payload.result, rest |-> payload.rest]
        ELSE [result |-> MessageFromBytes(RunsToBytes(payload.result.val)),
              rest |-> payload.rest]

\* a variant of the reader's recv: a payload that is no message is an
\* InvalidMessage
PeerConnectionReaderRecvInvalid(stream) ==
    LET r == PeerConnectionRecvMessage(stream)
    IN  IF ~r.result.ok /\ r.result.kind = "Serialization"
        THEN [result |-> InvalidMessage("malformed message"), rest |-> r.rest]
        ELSE r

\* PeerConnectionReader::recv
PeerConnectionReaderRecv(stream) ==
    LET len_buf == ReadExact(stream, 4)
        len == U32FromBeBytes(len_buf.result.val)
        payload == ReadExact(len_buf.rest, len)
    IN  IF ~len_buf.result.ok
            THEN [result |-> len_buf.result, rest |-> len_buf.rest]
        ELSE IF len > 10 * 1024 * 1024
            THEN [result |-> InvalidMessage("message too large"), rest |-> len_buf.rest]
        ELSE IF ~payload.result.ok
            THEN [result |-> payload.result, rest |-> payload.rest]
        ELSE [result |-> MessageFromBytes(RunsToBytes(payload.result.val)),
              rest |-> payload.rest]

\* PeerConnection::send of a message: to_frame (to_bytes inside), write_all, flush
PeerConnectionSendMessage(out, message) ==
    LET frame == MessageToFrame(message)
    IN  [result |-> Ok("unit"), out |-> BytesJoin(out, frame)]

\* PeerConnectionWriter::send
PeerConnectionWriterSend(out, message) ==
    LET frame == MessageToFrame(message)
    IN  [result |-> Ok("unit"), out |-> BytesJoin(out, frame)]

\* PeerConnection::into_split: the two halves of the same TcpStream
IntoSplit(conn) ==
    [reader |-> [peer_id |-> conn.peer_id, stream |-> conn.inbound],
     writer |-> [peer_id |-> conn.peer_id, stream |-> conn.outbound]]

\* the messages sent, and the pieces the incoming streams are made of: the frames
\* of the two messages, a frame of two bytes that are no message, an empty frame,
\* the length 00 a0 00 01 (one over the limit), the length 00 a0 00 00 (the limit)
\* with five bytes, a frame cut short, half a prefix
ConnMessages ==
    {[type |-> "Ping", timestamp |-> 1700000000],
     [type |-> "PairReject", session_id |-> 43981, reason |-> <<97, 34, 125, 44>>]}

ConnPieces ==
    LET run(b, n) == [b |-> b, n |-> n]
    IN  {MessageToFrame(m) : m \in ConnMessages}
        \cup {<<run(0, 3), run(2, 1), run(72, 1), run(105, 1)>>,
              <<run(0, 4)>>,
              <<run(0, 1), run(160, 1), run(0, 1), run(1, 1)>>,
              <<run(0, 1), run(160, 1), run(0, 2), run(4, 5)>>,
              <<run(0, 3), run(5, 1), run(97, 1)>>,
              <<run(0, 2)>>}

ConnStreams ==
    {<<>>} \cup ConnPieces \cup {BytesJoin(a, b) : a \in ConnPieces, b \in ConnPieces}

InitConn ==
    /\ config = [port |-> DEFAULT_PORT, device_name |-> NameMyDevice, local_ip |-> None]
    /\ Fresh
    /\ qr = Idle /\ kx = Idle /\ mr = Idle /\ service = NewService
    /\ fr \in {[stage |-> "connection",
                conn |-> [peer_id |-> 21, inbound |-> s, outbound |-> <<>>],
                received |-> <<>>, sends |-> 0,
                plain |-> [inbound |-> s, outbound |-> <<>>, received |-> <<>>]] :
                    s \in ConnStreams}

\* connection.recv().await
CnRecv ==
    /\ fr.stage = "connection"
    /\ Len(fr.received) < MaxRecvs
    /\ LET r == PeerConnectionRecvMessage(fr.conn.inbound)
           p == ReadFramedThenFromBytes(fr.plain.inbound)
       IN  fr' = [fr EXCEPT !.conn.inbound = r.rest,
                            !.received = Append(@, r.result),
                            !.plain.inbound = p.rest,
                            !.plain.received = Append(@, p.result)]
    /\ UNCHANGED <<server_vars, qr, kx, mr, service>>

\* connection.send(&message).await
CnSend ==
    /\ fr.stage = "connection"
    /\ fr.sends < MaxSends
    /\ \E m \in ConnMessages :
        fr' = [fr EXCEPT !.conn.outbound = PeerConnectionSendMessage(@, m).out,
                         !.sends = @ + 1,
                         !.plain.outbound = PeerConnectionSendMessage(@, m).out]
    /\ UNCHANGED <<server_vars, qr, kx, mr, service>>

\* let (reader, writer) = connection.into_split();
CnIntoSplit ==
    /\ fr.stage = "connection"
    /\ fr' = [stage |-> "split",
              reader |-> IntoSplit(fr.conn).reader, writer |-> IntoSplit(fr.conn).writer,
              received |-> fr.received, sends |-> fr.sends, plain |-> fr.plain]
    /\ UNCHANGED <<server_vars, qr, kx, mr, service>>

\* reader.recv().await
CnReaderRecv ==
    /\ fr.stage = "split"
    /\ Len(fr.received) < MaxRecvs
    /\ LET r == PeerConnectionReaderRecv(fr.reader.stream)
           p == ReadFramedThenFromBytes(fr.plain.inbound)
       IN  fr' = [fr EXCEPT !.reader.stream = r.rest,
                            !.received = Append(@, r.result),
                            !.plain.inbound = p.rest,
                            !.plain.received = Append(@, p.result)]
    /\ UNCHANGED <<server_vars, qr, kx, mr, service>>

\* writer.send(&message).await
CnWriterSend ==
    /\ fr.stage = "split"
    /\ fr.sends < MaxSends
    /\ \E m \in ConnMessages :
        fr' = [fr EXCEPT !.writer.stream = PeerConnectionWriterSend(@, m).out,
                         !.sends = @ + 1,
                         !.plain.outbound = PeerConnectionSendMessage(@, m).out]
    /\ UNCHANGED <<server_vars, qr, kx, mr, service>>

NextConn == CnRecv \/ CnSend \/ CnIntoSplit \/ CnReaderRecv \/ CnWriterSend

SpecConn == InitConn /\ [][NextConn]_vars

(***************************************************************************)
(* ClipboardManager and the monitor task of start_monitor.  At each poll   *)
(* the system clipboard is in one of the states arboard can answer with:   *)
(* a text (possibly empty), no content available, an error of get_text,    *)
(* or no clipboard to open.                                                *)
(***************************************************************************)
MaxPolls == 4
MonitorChannelCap == 16

ClipboardStates ==
    {[kind |-> "text", text |-> t] : t \in {<<>>, <<97>>, <<98>>}}
    \cup {[kind |-> k] : k \in {"ContentNotAvailable", "ClipboardOccupied", "no clipboard"}}

\* ClipboardManager::new
NewClipboardManager == [last_hash |-> None]

\* ClipboardManager::read
ClipboardRead(os) ==
    IF os.kind = "no clipboard" THEN Err("Clipboard", "new")
    ELSE IF os.kind = "text" /\ os.text # <<>>
        THEN Ok(Some([type |-> "Text", text |-> os.text]))
    ELSE IF os.kind = "text" THEN Ok(None)
    ELSE IF os.kind = "ContentNotAvailable" THEN Ok(None)
    ELSE Err("Clipboard", os.kind)

\* a variant of check_change: an empty clipboard leaves last_hash as it is
CheckChangeNoReset(manager, os) ==
    LET content == ClipboardRead(os)
    IN  IF ~content.ok THEN [result |-> content, manager |-> manager]
        ELSE IF content.val # None
            THEN IF manager.last_hash # Some(ContentHashOf(content.val[1]))
                 THEN [result |-> Ok(content.val),
                       manager |-> [last_hash |-> Some(ContentHashOf(content.val[1]))]]
                 ELSE [result |-> Ok(None), manager |-> manager]
        ELSE [result |-> Ok(None), manager |-> manager]

\* ClipboardManager::check_change: what it returns and the manager after it
CheckChange(manager, os) ==
    LET content == ClipboardRead(os)
    IN  IF ~content.ok THEN [result |-> content, manager |-> manager]
        ELSE IF content.val # None
            THEN IF manager.last_hash # Some(ContentHashOf(content.val[1]))
                 THEN [result |-> Ok(content.val),
                       manager |-> [last_hash |-> Some(ContentHashOf(content.val[1]))]]
                 ELSE [result |-> Ok(None), manager |-> manager]
        ELSE [result |-> Ok(None), manager |-> [last_hash |-> None]]

\* start_monitor: the channel is empty, the manager new; polls holds, for each turn
\* of the loop, the clipboard met, last_hash before and after, and what check_change
\* returned
InitPoll ==
    /\ config = [port |-> DEFAULT_PORT, device_name |-> NameMyDevice, local_ip |-> None]
    /\ Fresh
    /\ qr = Idle /\ kx = Idle /\ fr = Idle /\ service = NewService
    /\ mr = [stage |-> "monitor", manager |-> NewClipboardManager, polls |-> <<>>,
             channel |-> <<>>, receiver |-> "open", task |-> "running"]

\* one turn of the monitor's loop: sleep, check_change, and for a change the send
\* of ClipboardChange, which ends the task when the receiver is gone
Poll ==
    /\ mr.stage = "monitor" /\ mr.task = "running"
    /\ Len(mr.polls) < MaxPolls
    /\ Len(mr.channel) < MonitorChannelCap
    /\ \E os \in ClipboardStates :
        LET r == CheckChange(mr.manager, os)
            changed == r.result.ok /\ r.result.val # None
            change == [content |-> r.result.val[1], hash |-> ContentHashOf(r.result.val[1])]
        IN  mr' = [mr EXCEPT
                    !.manager = r.manager,
                    !.polls = Append(@, [os |-> os, before |-> mr.manager.last_hash,
                                         result |-> r.result,
                                         after |-> r.manager.last_hash]),
                    !.channel = IF changed /\ mr.receiver = "open"
                                THEN Append(@, change) ELSE @,
                    !.task = IF changed /\ mr.receiver = "dropped"
                             THEN "stopped" ELSE @]
    /\ UNCHANGED <<server_vars, qr, kx, fr, service>>

\* the receiver takes a change from the channel
MonitorRecv ==
    /\ mr.stage = "monitor" /\ mr.receiver = "open"
    /\ mr.channel # <<>>
    /\ mr' = [mr EXCEPT !.channel = Tail(@)]
    /\ UNCHANGED <<server_vars, qr, kx, fr, service>>

\* the receiver is dropped, and with it what the channel held
MonitorDrop ==
    /\ mr.stage = "monitor" /\ mr.receiver = "open"
    /\ mr' = [mr EXCEPT !.receiver = "dropped", !.channel = <<>>]
    /\ UNCHANGED <<server_vars, qr, kx, fr, service>>

NextPoll == Poll \/ MonitorRecv \/ MonitorDrop

SpecPoll == InitPoll /\ [][NextPoll]_vars

(***************************************************************************)
(* What the claims speak of.                                               *)
(***************************************************************************)
IsPairRequest(h) == msg[h] # None /\ msg[h][1].type = "PairRequest"

Mismatch == InvalidMessage("session ID mismatch")
NotPaired == Err("NotPaired", "no active pairing session")

\* the handler has taken a session whose id is its request's: it completes it
Consumes(h) ==
    /\ IsPairRequest(h)
    /\ held[h] # None
    /\ pc[h] \in {"write", "insert", "notify", "done"}

\* the events on the channel that handler h sent
EventsOf(h) == {i \in 1..Len(tx) : tx[i].conn = h}

\* the handler of h takes a step
Steps(h) == pc'[h] # pc[h]

\* C1: with one task at a time, a PairRequest whose session id is not the active
\* session's takes the session and puts the same session back: it returns
\* InvalidMessage (session ID mismatch), nothing is written on the connection, the
\* table and the event channel are as before, and the slot holds the session it held
\* before, id and key pair.
C1_MismatchRestoresSession ==
    [][\A h \in Conns :
        /\ (/\ pc[h] = "take" /\ Steps(h)
            /\ active_pairing # None
            /\ msg[h][1].session_id # active_pairing[1].session_id)
           => /\ pc'[h] = "restore"
              /\ held'[h] = active_pairing
              /\ UNCHANGED <<server_devices, tx, sent>>
        /\ (pc[h] = "restore" /\ Steps(h))
           => /\ active_pairing = None
              /\ held[h] # None
              /\ active_pairing' = held[h]
              /\ result'[h] = Some(Mismatch)
              /\ sent'[h] = <<>>
              /\ EventsOf(h)' = {}
              /\ UNCHANGED <<server_devices, tx>>]_vars

\* C1's case: the first connection's request was refused as a mismatch against the
\* only session ever made, and the second connection's request completed that session
C1_Witness ==
    /\ sessions_created = 1
    /\ result[1] = Some(Mismatch)
    /\ IsPairRequest(2) /\ msg[2][1].session_id = 1
    /\ result[2] = Some(Ok("unit"))
    /\ server_devices[msg[2][1].device_id] # None

\* C2: a PairRequest is never refused with NotPaired while a handler that found a
\* mismatch holds, out of the slot, the very session the request names.
C2_TakeAndCheckAtomic ==
    [][\A h \in Conns :
        (pc[h] = "take" /\ Steps(h) /\ result'[h] = Some(NotPaired))
        => ~ \E g \in Conns \ {h} :
                /\ pc[g] = "restore"
                /\ held[g][1].session_id = msg[h][1].session_id]_vars

\* C3: a session in the slot leaves it only by a handler taking it or by
\* start_pairing replacing it: the restore of a mismatching handler never
\* overwrites a session installed since that handler took the older one.
C3_RestoreKeepsNewerSession ==
    [][(active_pairing # None /\ active_pairing' # active_pairing)
        => \/ sessions_created' = sessions_created + 1
           \/ /\ active_pairing' = None
              /\ \E h \in Conns : pc[h] = "take" /\ held'[h] = active_pairing]_vars

C5_SessionCompletedAtMostOnce ==
    /\ \A h \in Conns : Consumes(h) =>
        /\ held[h][1].session_id = msg[h][1].session_id
        /\ active_pairing # None => active_pairing[1].session_id # held[h][1].session_id
        /\ \A g \in Conns \ {h} :
            Consumes(g) => held[g][1].session_id # held[h][1].session_id
    /\ \A h \in Conns : (pc[h] = "done" /\ IsPairRequest(h) /\ ~Consumes(h)) =>
        /\ ~result[h][1].ok
        /\ result[h][1].kind \in {"NotPaired", "InvalidMessage"}
        /\ sent[h] = <<>>
        /\ EventsOf(h) = {}
    /\ \A h \in Conns : sent[h] # <<>> => Consumes(h) /\ Len(sent[h]) = 1
    /\ \A i \in 1..Len(tx) : tx[i].type = "DevicePaired" =>
        /\ Consumes(tx[i].conn)
        /\ \A j \in 1..Len(tx) : tx[j].conn = tx[i].conn => j = i
    /\ \A d \in DeviceIds : server_devices[d] # None =>
        \E h \in Conns : Consumes(h) /\ server_devices[d][1] = PairedDeviceOf(h)

\* C5's case: two requests named the same session; one completed it, the other
\* was refused
C5_Witness ==
    \E h, g \in Conns :
        /\ h # g
        /\ IsPairRequest(h) /\ IsPairRequest(g)
        /\ msg[h][1].session_id = msg[g][1].session_id
        /\ pc[h] = "done" /\ result[h] = Some(Ok("unit"))
        /\ pc[g] = "done" /\ result[g] = Some(NotPaired)

\* C6: an operation that needs the active session and finds the slot empty fails
\* with NotPaired and changes nothing: a handler's take of the session, and
\* get_pairing_qr_svg.
C6_NotPairedWhenNoSession ==
    [][/\ \A h \in Conns :
            (pc[h] = "take" /\ Steps(h) /\ active_pairing = None)
            => /\ result'[h] = Some(NotPaired)
               /\ UNCHANGED <<active_pairing, server_devices, tx>>
       /\ (api' # api /\ api'.op = "get_pairing_qr_svg" /\ active_pairing = None)
            => /\ ~api'.result.ok
               /\ api'.result.kind = "NotPaired"
               /\ UNCHANGED <<active_pairing, server_devices, tx>>]_vars

\* C7: with one task at a time, start_pairing returns a URL that from_url parses to
\* the id and the public key of the session in the slot right after the call, the
\* configured port and the device name; that session is a new one, and from then on
\* the slot never holds an older one: a PairRequest naming the newest session goes
\* on to complete it, one naming any other is turned back as a mismatch.
C7_StartPairingReplacesSession ==
    [][/\ (sessions_created' # sessions_created)
            => LET parsed == FromUrl(api'.result.val)
                   session == active_pairing'[1]
               IN  /\ api'.op = "start_pairing" /\ api'.result.ok
                   /\ parsed.ok
                   /\ parsed.val.session_id = session.session_id
                   /\ parsed.val.pubkey = PublicKeyToBytes(session.ephemeral_public)
                   /\ parsed.val.port = config.port
                   /\ parsed.val.name = config.device_name
                   /\ session.ephemeral_public = PublicKeyOf(session.ephemeral_secret)
                   /\ active_pairing # None => session.session_id # active_pairing[1].session_id
       /\ active_pairing' # None => active_pairing'[1].session_id = sessions_created'
       /\ \A h \in Conns :
            (pc[h] = "take" /\ Steps(h) /\ active_pairing # None)
            => pc'[h] = IF msg[h][1].session_id = sessions_created THEN "write" ELSE "restore"
       /\ \A h \in Conns :
            (pc[h] = "restore" /\ Steps(h)) => result'[h] = Some(Mismatch)]_vars

\* C7's case: after the second start_pairing a request naming the first session was
\* turned back as a mismatch and a request naming the second completed it
C7_Witness ==
    \E h, g \in Conns :
        /\ sessions_created = 2
        /\ IsPairRequest(h) /\ msg[h][1].session_id = 1 /\ result[h] = Some(Mismatch)
        /\ IsPairRequest(g) /\ msg[g][1].session_id = 2 /\ result[g] = Some(Ok("unit"))
        /\ \A k \in Conns : ~(Consumes(k) /\ held[k][1].session_id = 1)

\* C8: the two sessions derive the same session key, each from its own secret and
\* the other's public key, and what one side encrypts the other decrypts to the
\* same plaintext.
C8_SessionKeySymmetry ==
    /\ kx.stage \in {"keys", "encrypted", "decrypted"} => kx.key_a = kx.key_b
    /\ (kx.stage = "decrypted" /\ kx.key = kx.key_b /\ kx.payload = kx.encrypted)
        => kx.decrypted = Ok(kx.plaintext)

\* C8's case: the peer decrypted a non-empty plaintext sent as it was
C8_Witness ==
    /\ kx.stage = "decrypted"
    /\ kx.key = kx.key_b /\ kx.payload = kx.encrypted
    /\ kx.plaintext # <<>>
    /\ kx.decrypted.ok

\* C9: for a payload encrypt produced under a key, decrypt with any other key, and
\* decrypt with that key after any change of the nonce or of the ciphertext that a
\* party without the key can make, return a Crypto error and so no plaintext; no
\* decrypt fails with an error of another kind.
C9_DecryptFailsClosed ==
    kx.stage = "decrypted"
    => /\ (kx.key # kx.key_a /\ kx.payload = kx.encrypted)
            => ~kx.decrypted.ok /\ kx.decrypted.kind = "Crypto"
       /\ (kx.key = kx.key_a /\ kx.payload # kx.encrypted)
            => ~kx.decrypted.ok /\ kx.decrypted.kind = "Crypto"
       /\ ~kx.decrypted.ok => kx.decrypted.kind = "Crypto"

\* C9's case: the right key, and a payload whose body is another encryption's
C9_Witness ==
    /\ kx.stage = "decrypted"
    /\ kx.key = kx.key_a
    /\ kx.payload.nonce = kx.encrypted.nonce
    /\ kx.payload.ciphertext.body # kx.encrypted.ciphertext.body
    /\ ~kx.decrypted.ok

\* C10: from_url(to_url(d)) succeeds and is d, field for field.
C10_QrRoundTrip ==
    qr.stage = "parsed"
    => /\ qr.parsed.ok
       /\ qr.parsed.val.session_id = qr.data.session_id
       /\ qr.parsed.val.pubkey = qr.data.pubkey
       /\ qr.parsed.val.ip = qr.data.ip
       /\ qr.parsed.val.port = qr.data.port
       /\ qr.parsed.val.name = qr.data.name

\* C10's case: a descriptor whose name is "% &" and whose address is "%4" was
\* encoded and parsed
C10_Witness ==
    /\ qr.stage = "parsed"
    /\ qr.data.name = <<37, 32, 38>>
    /\ qr.data.ip = <<37, 52>>
    /\ qr.parsed.ok

\* C11: from_url returns InvalidMessage, and so no descriptor, for every URL that
\* does not begin with omniclip://pair?, has no parameter for one of the five keys,
\* or has an s value that is no UUID, a k value that is not the base64url of a key of
\* the right length, or a p value that is no 16-bit number.
C11_FromUrlRejects ==
    (qr.stage = "parsed" /\ qr.added = 0)
    => ((\/ qr.pre # UrlPrefix
         \/ \E key \in FiveKeys : \A i \in 1..Len(qr.parts) : qr.parts[i].key # key
         \/ \E i \in 1..Len(qr.parts) :
                qr.parts[i].key \in {<<L("s")>>, <<L("k")>>, <<L("p")>>} /\ ~qr.parts[i].good)
        => ~qr.parsed.ok /\ qr.parsed.kind = "InvalidMessage")

\* C11's case: a URL with the prefix and good values for the five keys, and then a
\* second k whose value is a byte short, was turned down
C11_Witness ==
    /\ qr.stage = "parsed"
    /\ qr.pre = UrlPrefix
    /\ Len(qr.parts) = 6
    /\ \A i \in 1..5 : qr.parts[i].good
    /\ ~qr.parts[6].good
    /\ ~qr.parsed.ok

C13_FramingRoundTrip ==
    LET wrote == IF fr.stage = "received" THEN fr.from ELSE fr
        len == BytesLen(wrote.payload)
        b(i) == Head(BytesDrop(wrote.out, i - 1)).b
    IN  /\ (wrote.stage = "sent" /\ wrote.path = "write_framed_message"
                /\ len <= MAX_MESSAGE_SIZE)
            => /\ wrote.result = Ok("unit")
               /\ BytesLen(wrote.out) = 4 + len
               /\ b(1) = len \div 16777216 /\ b(2) = (len \div 65536) % 256
               /\ b(3) = (len \div 256) % 256 /\ b(4) = len % 256
               /\ BytesDrop(wrote.out, 4) = wrote.payload
        /\ (fr.stage = "received" /\ fr.path = "read_framed_message"
                /\ wrote.stage = "sent" /\ wrote.path = "write_framed_message"
                /\ len <= MAX_MESSAGE_SIZE)
            => /\ fr.result = Ok(wrote.payload)
               /\ BytesLen(fr.rest) = BytesLen(wrote.stream) - 4 - len
               /\ BytesCanon(wrote.out \o fr.rest) = wrote.stream

\* C13's case: a payload of exactly MAX_MESSAGE_SIZE zero bytes, followed in the
\* stream by more zero bytes, was written and read back
C13_Witness ==
    /\ fr.stage = "received" /\ fr.path = "read_framed_message"
    /\ fr.from.stage = "sent" /\ fr.from.path = "write_framed_message"
    /\ fr.from.payload = <<[b |-> 0, n |-> MAX_MESSAGE_SIZE]>>
    /\ fr.rest # <<>>
    /\ fr.result.ok

\* C14: write_framed_message turns down every payload of more than
\* MAX_MESSAGE_SIZE bytes with InvalidMessage and writes nothing; it takes a payload
\* of exactly MAX_MESSAGE_SIZE bytes.
C14_WriterRejectsOversize ==
    (fr.stage = "sent" /\ fr.path = "write_framed_message")
    => /\ BytesLen(fr.payload) > MAX_MESSAGE_SIZE
            => ~fr.result.ok /\ fr.result.kind = "InvalidMessage" /\ fr.out = <<>>
       /\ BytesLen(fr.payload) = MAX_MESSAGE_SIZE => fr.result.ok /\ fr.out # <<>>

\* C14's case: a payload of MAX_MESSAGE_SIZE + 1 bytes was turned down
C14_Witness ==
    /\ fr.stage = "sent" /\ fr.path = "write_framed_message"
    /\ BytesLen(fr.payload) = MAX_MESSAGE_SIZE + 1
    /\ ~fr.result.ok

\* C15: each receive path that reads a length above 10 MiB returns InvalidMessage
\* with the four bytes of the length taken from the stream and no more, and no
\* buffer made for the payload; the server's handler then returns the error with
\* the session slot, the table and the event channel as they were, and nothing
\* written back.
C15_OversizePrefixRejected ==
    [][(fr' # fr /\ fr'.stage \in {"received", "served"})
        => LET stream == fr.stream
               b(i) == Head(BytesDrop(stream, i - 1)).b
               oversize == /\ BytesLen(stream) >= 4
                           /\ \/ b(1) > 0
                              \/ b(2) * 65536 + b(3) * 256 + b(4) > 10485760
           IN  oversize
               => /\ fr'.result = InvalidMessage("message too large")
                  /\ fr'.rest = BytesDrop(stream, 4)
                  /\ fr'.allocated = 0
                  /\ fr'.stage = "served"
                        => /\ result'[1] = Some(fr'.result)
                           /\ pc'[1] = "done"
                           /\ UNCHANGED <<active_pairing, server_devices, tx, sent>>]_vars

\* C15's case: the server's handler read the length 00 a0 00 01, with that many
\* bytes after it, and returned; all the bytes after the length are unread
C15_Witness ==
    /\ fr.stage = "served"
    /\ BytesLen(fr.from.stream) = 4 + MAX_MESSAGE_SIZE + 1
    /\ BytesLen(fr.rest) = MAX_MESSAGE_SIZE + 1
    /\ pc[1] = "done"
    /\ ~result[1][1].ok

\* C16: whatever a send path puts on the wire is a frame whose payload has at most
\* 10,485,760 bytes and whose first four bytes are the payload's length; a payload
\* that is larger is turned down with an error and nothing is written.
C16_SentFramesWithinLimit ==
    fr.stage = "sent"
    => LET len == BytesLen(fr.payload)
           b(i) == Head(BytesDrop(fr.out, i - 1)).b
       IN  /\ fr.out # <<>>
                => /\ len <= 10485760
                   /\ BytesLen(fr.out) = 4 + len
                   /\ b(1) = len \div 16777216 /\ b(2) = (len \div 65536) % 256
               /\ b(3) = (len \div 256) % 256 /\ b(4) = len % 256
           /\ len > 10485760 => ~fr.result.ok /\ fr.out = <<>>

\* C17: for every message of each of the eight variants, from_bytes of what
\* to_bytes wrote succeeds and gives the same variant with the same values in its
\* fields; from_bytes is given the bytes and nothing else.
C17_MessageRoundTrip ==
    mr.stage = "decoded" => mr.decoded = Ok(mr.m)

\* C17's case: a PairReject whose reason holds a quote, a brace and a comma came
\* back from its bytes
C17_Witness ==
    /\ mr.stage = "decoded"
    /\ mr.m.type = "PairReject"
    /\ mr.m.reason = <<97, 34, 125, 44>>
    /\ mr.decoded.ok
    /\ mr.decoded.val.type = "PairReject"
    /\ Len(mr.bytes) > 20

\* C18: a connection whose handler fails does not stop the accept loop and leaves
\* nothing behind: when a handler returns an error with the connections handled
\* one at a time, the slot holds the session it held when that connection was
\* accepted, the table and the event channel are as they were, and the next
\* connection is accepted, so that a later connection is handled as if the failed
\* one had never been.
C18_FailedConnectionsLeaveNoTrace ==
    [][\A h \in Conns :
        (result[h] = None /\ result'[h] # None /\ ~result'[h][1].ok)
        => /\ active_pairing' = (IF held[h] # None THEN held[h] ELSE active_pairing)
           /\ UNCHANGED <<server_devices, tx>>
           /\ accepted' = accepted
           /\ accepted < MaxConns => pc'[accepted + 1] = "idle"]_vars

\* C19: the handler of a ClipboardSync forwards it exactly when the sender_id it
\* claims is a key of the server's table at the lookup: then one MessageReceived
\* event with that peer_id and the message as it was read is put on the channel;
\* otherwise the channel is left as it was.  Either way nothing is written on the
\* connection and the table and the session slot do not change.
C19_ForwardedIffSenderPaired ==
    [][\A h \in Conns :
        (pc[h] = "lookup" /\ pc'[h] # "lookup")
        => LET m == msg[h][1]
           IN  /\ m.type = "ClipboardSync"
               /\ IF m.sender_id \in {d \in DeviceIds : server_devices[d] # None}
                  THEN /\ Len(tx') = Len(tx) + 1
                       /\ SubSeq(tx', 1, Len(tx)) = tx
                       /\ tx'[Len(tx')].type = "MessageReceived"
                       /\ tx'[Len(tx')].peer_id = m.sender_id
                       /\ tx'[Len(tx')].message = m
                  ELSE tx' = tx
               /\ UNCHANGED <<sent, server_devices, active_pairing>>]_vars

\* C19's case: a ClipboardSync from a device paired over an earlier connection was
\* forwarded, and its handler has returned
C19_Witness ==
    \E h \in Conns :
        /\ pc[h] = "done"
        /\ msg[h] # None /\ msg[h][1].type = "ClipboardSync"
        /\ server_devices[msg[h][1].sender_id] # None
        /\ \E i \in 1..Len(tx) :
                tx[i].type = "MessageReceived" /\ tx[i].message = msg[h][1]

\* C20: when the relay takes a forwarded ClipboardSync whose peer_id has no row in
\* the service's table, or whose payload does not decrypt under that row's session
\* key, or whose plaintext is no ClipboardContent, no ServiceEvent is sent and the
\* table is as it was; and the relay goes on: it is still running, with the event
\* taken and the next one at the head of the server's channel.
C20_RelayDropsUndecryptable ==
    [][(tx # <<>> /\ tx' = Tail(tx))
        => Bind(Head(tx), LAMBDA event :
            (/\ event.type = "MessageReceived" /\ event.message.type = "ClipboardSync"
             /\ Bind(service.paired_devices[event.peer_id], LAMBDA device :
                  \/ device = None
                  \/ Bind(SessionKeyDecrypt(device[1].session_key,
                                            event.message.encrypted_content),
                          LAMBDA decrypted :
                       \/ ~decrypted.ok
                       \/ ~ClipboardContentFromBytes(decrypted.val).ok)))
            => /\ service'.tx = service.tx
               /\ service'.paired_devices = service.paired_devices
               /\ service'.relay = "running"
               /\ service'.seen = Append(service.seen, event))]_vars

\* C20's case: after the pairing of device 21 the relay took a ClipboardSync that
\* does not decrypt and then one that does, and surfaced only the second
C20_Witness ==
    /\ Len(service.seen) = 3
    /\ service.seen[1].type = "DevicePaired"
    /\ service.seen[2].type = "MessageReceived"
    /\ service.seen[2].message.type = "ClipboardSync"
    /\ ~SessionKeyDecrypt(service.seen[1].device.session_key,
                          service.seen[2].message.encrypted_content).ok
    /\ Len(service.tx) = 2
    /\ service.tx[2].type = "ClipboardReceived"
    /\ service.tx[2].content = [type |-> "Text", text |-> <<104, 105>>]

\* C21: a connection whose one message is an Announce, PairAccept, PairReject, Ack,
\* Ping or Pong is ignored: the handler returns Ok at the read, and that step sends no
\* SyncEvent, writes nothing on any connection (a Ping gets no Pong) and leaves the
\* session slot and the device table as they were; the connection never has an
\* event on the channel nor a message written back.
C21_OtherMessagesIgnored ==
    [][\A h \in Conns :
        (pc[h] = "read" /\ msg'[h] # None /\ msg'[h][1].type \in IgnoredTypes)
        => /\ pc'[h] = "done"
           /\ result'[h] = Some(Ok("unit"))
           /\ UNCHANGED <<tx, sent, active_pairing, server_devices>>
           /\ sent'[h] = <<>>
           /\ \A i \in 1..Len(tx') : tx'[i].conn # h]_vars

\* C21's case: with a session active and a device paired, a Ping was read and its
\* handler has returned
C21_Witness ==
    \E h \in Conns :
        /\ pc[h] = "done"
        /\ msg[h] # None /\ msg[h][1].type = "Ping"
        /\ active_pairing # None
        /\ \E d \in DeviceIds : server_devices[d] # None

\* C27: hashing a content twice gives equal hashes, equal contents have equal
\* hashes, two Text contents with different strings have different hashes, and a
\* Text and a RichText never feed the same bytes to the digest: the one's begin
\* with "text:" and the other's with "rich:".
C27_HashDeterministicAndTyped ==
    mr.stage = "hashed"
    => /\ mr.hash1 = mr.hash2
       /\ (mr.a = mr.b => mr.hash1 = mr.hash_b)
       /\ (mr.a.type = "Text" /\ mr.b.type = "Text" /\ mr.a.text # mr.b.text
            => mr.hash1 # mr.hash_b)
       /\ (mr.a.type # mr.b.type
            => /\ mr.fed_a # mr.fed_b
               /\ SubSeq(mr.fed_a, 1, 5) # SubSeq(mr.fed_b, 1, 5))

\* C27's case: a Text and a RichText whose strings, put end to end, are the same
\* bytes have been hashed
C27_Witness ==
    /\ mr.stage = "hashed"
    /\ mr.a.type = "Text" /\ mr.b.type = "RichText"
    /\ mr.a.text = mr.b.plain \o mr.b.html
    /\ mr.a.text # <<>>

\* C22: whenever the clipboard task takes a change whose hash is the recorded
\* last-sent hash, that turn sends no ServiceEvent, encrypts nothing (no message is
\* built, so none is reported or transmitted later) and leaves the last-sent hash
\* and the table as they were; this at every turn of every sequence of changes.
C22_EchoSuppressed ==
    [][(/\ service'.changes = service.changes + 1
        /\ service.last_sent_hash = Some(service'.change[1][1].hash))
        => /\ service'.tx = service.tx
           /\ service'.clip = None
           /\ service'.last_sent_hash = service.last_sent_hash
           /\ service'.transmitted = service.transmitted
           /\ service'.paired_devices = service.paired_devices]_vars

\* C22's case: with a device paired, a content that was sent was observed again
\* and its turn skipped it
C22_Witness ==
    /\ service.change # None
    /\ service.change[1][2] = "skipped"
    /\ service.last_sent_hash = Some(ContentHashOf(service.change[1][1].content))
    /\ PairedIds(service.paired_devices) # {}
    /\ \E i \in 1..Len(service.tx) : service.tx[i].type = "ClipboardSent"

\* the turn that took `change` built one message per device of `table`, each
\* encrypted under that device's own session key, and nothing else
BuiltOncePerDevice(table, change, clip) ==
    /\ clip.hash = change.hash
    /\ Len(clip.sent_to) = Cardinality(PairedIds(table))
    /\ {clip.sent_to[i] : i \in 1..Len(clip.sent_to)} = PairedIds(table)
    /\ Len(clip.built) = Len(clip.sent_to)
    /\ \A i \in 1..Len(clip.built) :
            /\ clip.built[i].content_hash = change.hash
            /\ SessionKeyDecrypt(table[clip.sent_to[i]][1].session_key,
                                 clip.built[i].encrypted_content)
                 = Ok(ClipboardContentToBytes(change.content))

\* the step reports the turn's ClipboardSent, after the hash was recorded, for
\* exactly the devices paired at that moment
ReportsAfterRecording ==
    /\ service.last_sent_hash = Some(service.clip[1].hash)
    /\ service'.last_sent_hash = service.last_sent_hash
    /\ Len(service'.tx) = Len(service.tx) + 1
    /\ SubSeq(service'.tx, 1, Len(service.tx)) = service.tx
    /\ service'.tx[Len(service'.tx)].type = "ClipboardSent"
    /\ service'.tx[Len(service'.tx)].to_devices = service.clip[1].sent_to
    /\ {service.clip[1].sent_to[i] : i \in 1..Len(service.clip[1].sent_to)}
         = PairedIds(service.paired_devices)
    /\ Len(service.clip[1].sent_to) = Cardinality(PairedIds(service.paired_devices))

\* C23 as stated: every turn that takes a change whose hash is not the last-sent
\* hash encrypts the content once per device of the table under that device's key
\* and records the hash, and the turn then reports ClipboardSent for exactly the
\* devices paired at that moment.
C23_EveryChangeRecordedAndReported ==
    [][/\ (/\ service'.changes = service.changes + 1
           /\ service.last_sent_hash # Some(service'.change[1][1].hash))
          => /\ service'.last_sent_hash = Some(service'.change[1][1].hash)
             /\ service'.clip # None
             /\ BuiltOncePerDevice(service.paired_devices, service'.change[1][1],
                                   service'.clip[1])
             /\ service'.tx = service.tx
       /\ (service.clip # None /\ service'.clip = None) => ReportsAfterRecording]_vars

\* C23, amended: the same for every such change taken while at least one device is
\* paired; a change taken while the table is empty is not recorded as last-sent and
\* nothing is reported for it.
C23_ChangeWithDevicesRecordedAndReported ==
    [][/\ (/\ service'.changes = service.changes + 1
           /\ service.last_sent_hash # Some(service'.change[1][1].hash))
          => IF PairedIds(service.paired_devices) # {}
             THEN /\ service'.last_sent_hash = Some(service'.change[1][1].hash)
                  /\ service'.clip # None
                  /\ BuiltOncePerDevice(service.paired_devices, service'.change[1][1],
                                        service'.clip[1])
                  /\ service'.tx = service.tx
             ELSE /\ service'.last_sent_hash = service.last_sent_hash
                  /\ service'.clip = None
                  /\ service'.tx = service.tx
       /\ (service.clip # None /\ service'.clip = None) => ReportsAfterRecording]_vars

\* C23's case: with two devices paired under different keys, a second, different
\* content was taken, and its ClipboardSent names both devices
C23_Witness ==
    /\ service.changes = 2
    /\ service.change[1][2] = "built"
    /\ service.clip = None
    /\ Cardinality(PairedIds(service.paired_devices)) = 2
    /\ service.paired_devices[21][1].session_key # service.paired_devices[22][1].session_key
    /\ Len(service.tx) = 4
    /\ service.tx[3].type = "ClipboardSent"
    /\ service.tx[4].type = "ClipboardSent"
    /\ Len(service.tx[4].to_devices) = 2

\* C24: whenever a ClipboardSent is on the ServiceEvent channel, for each device it
\* lists a ClipboardSync whose payload was encrypted under a session key of that
\* device has been written to that device's connection.
C24_ReportedMeansTransmitted ==
    \A i \in 1..Len(service.tx) :
        service.tx[i].type = "ClipboardSent"
        => \A j \in 1..Len(service.tx[i].to_devices) :
             \E k \in 1..Len(service.transmitted) :
                /\ service.transmitted[k].to = service.tx[i].to_devices[j]
                /\ service.transmitted[k].message.type = "ClipboardSync"
                /\ \E e \in PairedEvents :
                     /\ e.device.device_id = service.tx[i].to_devices[j]
                     /\ SessionKeyDecrypt(e.device.session_key,
                            service.transmitted[k].message.encrypted_content).ok

\* C28: every PairAccept written on a connection answers that connection's
\* PairRequest with the session the handler consumed: its session_id is the
\* request's and the session's, its ephemeral_pubkey is the key in that session's QR
\* descriptor, its device_id, device_name and identity_pubkey are this device's, and
\* its signature is the one sign_pairing makes: it verifies under identity_pubkey
\* over session_id bytes, our ephemeral key, the requester's ephemeral key, in that
\* order, and not with the two keys exchanged.
C28_PairAcceptBindsIdentity ==
    \A h \in Conns : \A i \in 1..Len(sent[h]) :
        sent[h][i].type = "PairAccept"
        => /\ msg[h] # None /\ msg[h][1].type = "PairRequest" /\ held[h] # None
           /\ sent[h][i].session_id = msg[h][1].session_id
           /\ sent[h][i].session_id = held[h][1].session_id
           /\ PublicKeyToBytes(sent[h][i].ephemeral_pubkey)
                = QrData(held[h][1], FirstIpOr(config.local_ip), config.port,
                         config.device_name).pubkey
           /\ sent[h][i].device_id = OurDeviceId
           /\ sent[h][i].device_name = config.device_name
           /\ sent[h][i].identity_pubkey = VerifyingKeyOf(OurSigningKey)
           /\ sent[h][i].signature
                = SignPairing(held[h][1], OurSigningKey, msg[h][1].ephemeral_pubkey)
           /\ Verify(sent[h][i].identity_pubkey,
                     UuidAsBytes(msg[h][1].session_id)
                        \o PublicKeyToBytes(held[h][1].ephemeral_public)
                        \o PublicKeyToBytes(msg[h][1].ephemeral_pubkey),
                     sent[h][i].signature).ok
           /\ ~Verify(sent[h][i].identity_pubkey,
                      UuidAsBytes(msg[h][1].session_id)
                        \o PublicKeyToBytes(msg[h][1].ephemeral_pubkey)
                        \o PublicKeyToBytes(held[h][1].ephemeral_public),
                      sent[h][i].signature).ok
           /\ \A r \in Requesters :
                ~Verify(VerifyingKeyOf(r.signing_key),
                        sent[h][i].signature.data, sent[h][i].signature).ok

\* C28's case: two handshakes, of two sessions, have each had their PairAccept
\* written
C28_Witness ==
    /\ \A h \in Conns : Len(sent[h]) = 1 /\ sent[h][1].type = "PairAccept"
    /\ \E g, h \in Conns : sent[g][1].session_id # sent[h][1].session_id

\* every entry of the server's table and every DevicePaired event comes from a
\* handshake whose PairAccept was written, and a handler whose write failed has
\* written nothing, sent no event, and its session is not in the slot
PairedOnlyAfterAccept ==
    /\ \A d \in DeviceIds :
        server_devices[d] # None
        => \E h \in Conns :
            /\ IsPairRequest(h) /\ msg[h][1].device_id = d
            /\ pc[h] \in {"notify", "done"}
            /\ held[h] # None
            /\ sent[h] = <<PairAcceptOf(h)>>
            /\ server_devices[d] = Some(PairedDeviceOf(h))
    /\ \A i \in 1..Len(tx) :
        tx[i].type = "DevicePaired"
        => /\ sent[tx[i].conn] = <<PairAcceptOf(tx[i].conn)>>
           /\ tx[i].device = PairedDeviceOf(tx[i].conn)
           /\ server_devices[tx[i].device.device_id] # None
    /\ \A h \in Conns :
        (pc[h] = "done" /\ result[h] = Some(Err("Network", "write failed")))
        => /\ sent[h] = <<>>
           /\ EventsOf(h) = {}
           /\ held[h] # None
           /\ active_pairing # held[h]

\* C29: in every state a device is in the server's table, and a DevicePaired event
\* for it is on the channel, only if the PairAccept of its handshake was written;
\* and the step at which the write of a PairAccept fails inserts no device, sends no
\* event and writes nothing, and leaves the slot as it was, without the session the
\* handler consumed: empty, unless another task has filled it meanwhile.
C29_PairedOnlyAfterAcceptWritten ==
    [][/\ PairedOnlyAfterAccept'
       /\ \A h \in Conns :
            (pc[h] = "write" /\ pc'[h] = "done")
            => /\ ~result'[h][1].ok
               /\ UNCHANGED <<server_devices, tx, sent, active_pairing>>
               /\ \/ active_pairing' = None
                  \/ active_pairing'[1].session_id # held[h][1].session_id]_vars

\* C29's case: one handshake's write failed after it consumed the session, the slot
\* is empty and nothing is paired, and another connection was accepted since
C29_Witness ==
    \E h \in Conns :
        /\ pc[h] = "done" /\ result[h] = Some(Err("Network", "write failed"))
        /\ held[h] # None
        /\ active_pairing = None
        /\ \A d \in DeviceIds : server_devices[d] = None
        /\ tx = <<>>
        /\ accepted = MaxConns

\* unpair_device(d) has returned, and since then no handshake of d has stored d and
\* the relay has taken no DevicePaired of d
UnpairedSince(d) ==
    /\ service.unpaired[d] # None
    /\ Handshakes(d) = service.unpaired[d][1].handshakes
    /\ PairingsRelayed(service, d) = service.unpaired[d][1].relayed

\* C25: once unpair_device(d) has returned, and until d pairs again,
\* get_paired_devices omits d, a clipboard change would visit no entry of d, the
\* server forwards no ClipboardSync whose sender_id is d, and no ClipboardReceived
\* from d is sent after the events that preceded the call.
C25_UnpairedEverywhere ==
    [][\A d \in DeviceIds :
        UnpairedSince(d)'
        => /\ d \notin GetPairedDevices(service')
           /\ \A order \in IterOrders(service'.paired_devices) :
                \A i \in 1..Len(order) : order[i] # d
           /\ ~(/\ Len(tx') = Len(tx) + 1
                /\ tx'[Len(tx')].type = "MessageReceived"
                /\ tx'[Len(tx')].message.type = "ClipboardSync"
                /\ tx'[Len(tx')].peer_id = d)
           /\ \A i \in (service'.unpaired[d][1].events + 1)..Len(service'.tx) :
                ~(/\ service'.tx[i].type = "ClipboardReceived"
                  /\ service'.tx[i].from_device = d)]_vars

\* C26: once SyncServerHandle::abort has been called no connection is accepted and
\* no handler takes the session, writes on its connection, inserts a device or
\* sends an event.
C26_AbortStopsHandlers ==
    [][service.server = "aborted"
        => /\ accepted' = accepted
           /\ held' = held
           /\ sent' = sent
           /\ server_devices' = server_devices
           /\ Len(tx') <= Len(tx)]_vars

\* C30: whenever the relay takes a forwarded ClipboardSync whose sender is in the
\* server's table and whose payload decrypts under the session key of the sender's
\* handshake to a ClipboardContent, that turn sends one ClipboardReceived with the
\* sender's id and the decoded content.
C30_ForwardedSyncIsReceived ==
    [][(tx # <<>> /\ tx' = Tail(tx))
        => Bind(Head(tx), LAMBDA event :
            (/\ event.type = "MessageReceived" /\ event.message.type = "ClipboardSync"
             /\ server_devices[event.peer_id] # None
             /\ SessionKeyDecrypt(server_devices[event.peer_id][1].session_key,
                                  event.message.encrypted_content)
                  = Ok(ClipboardContentToBytes([type |-> "Text", text |-> <<104, 105>>])))
            => service'.tx = Append(service.tx,
                                    [type |-> "ClipboardReceived",
                                     from_device |-> event.peer_id,
                                     content |-> [type |-> "Text",
                                                  text |-> <<104, 105>>]]))]_vars

\* every handler has returned, the relay has taken every event, and unpair_device
\* was never called
Settled ==
    /\ \A h \in Conns : pc[h] \in {"idle", "done"}
    /\ tx = <<>>
    /\ \A d \in DeviceIds : service.unpaired[d] = None

\* C31: once every handler has finished and every DevicePaired was relayed, with no
\* unpair call, the server's table and the service's table hold the same device
\* ids and, for each id, the same session key.
C31_TablesConverge ==
    Settled
    => \A d \in DeviceIds :
        /\ (server_devices[d] = None) <=> (service.paired_devices[d] = None)
        /\ server_devices[d] # None
            => server_devices[d][1].session_key = service.paired_devices[d][1].session_key

\* C32: the task that reads the ServiceEvent channel is never left waiting in
\* unpair_device for the table's lock while the task that holds the lock waits for
\* room in the full channel, which only that reader can make.
C32_NoLockHeldOnFullQueue ==
    ~(/\ service.consumer = "unpair_device"
      /\ service.clip # None
      /\ Len(service.tx) = ServiceChannelCap)

\* C33: whenever a ClipboardReceived{from_device: d, content: c} is sent, the relay
\* has just taken a ClipboardSync forwarded with peer_id d, d is in the service's
\* table at that moment, and the payload decrypts under d's stored session key to
\* bytes that are a serialization of c; so a message that claims sender d and is
\* encrypted under another paired device's key, or under no known key, surfaces
\* nothing.
C33_AttributionSafety ==
    [][(/\ Len(service'.tx) = Len(service.tx) + 1
        /\ service'.tx[Len(service'.tx)].type = "ClipboardReceived")
        => Bind(service'.tx[Len(service'.tx)], LAMBDA received :
            /\ tx # <<>> /\ tx' = Tail(tx)
            /\ Head(tx).type = "MessageReceived"
            /\ Head(tx).message.type = "ClipboardSync"
            /\ Head(tx).peer_id = received.from_device
            /\ service.paired_devices[received.from_device] # None
            /\ service'.paired_devices = service.paired_devices
            /\ Bind(SessionKeyDecrypt(
                        service.paired_devices[received.from_device][1].session_key,
                        Head(tx).message.encrypted_content),
                    LAMBDA decrypted :
                        /\ decrypted.ok
                        /\ ClipboardContentFromBytes(decrypted.val) = Ok(received.content)))]_vars

\* C33's case: with 21 and 22 both paired, a ClipboardSync that claims 21 and is
\* encrypted under the key of 22 was taken by the relay and surfaced nothing
C33_Witness ==
    /\ Len(service.seen) = 3
    /\ service.paired_devices[21] # None /\ service.paired_devices[22] # None
    /\ service.seen[3].type = "MessageReceived"
    /\ service.seen[3].message.type = "ClipboardSync"
    /\ service.seen[3].peer_id = 21
    /\ SessionKeyDecrypt(service.paired_devices[22][1].session_key,
                         service.seen[3].message.encrypted_content).ok
    /\ \A i \in 1..Len(service.tx) : service.tx[i].type # "ClipboardReceived"

\* the DevicePaired events of connection h, waiting in a channel or taken by the
\* relay, counted
PairedEventsOf(h) ==
    Cardinality({i \in 1..Len(tx) : tx[i].type = "DevicePaired" /\ tx[i].conn = h})
    + Cardinality({i \in 1..Len(service.seen) :
                        service.seen[i].type = "DevicePaired" /\ service.seen[i].conn = h})

\* one PairingRequest per DevicePaired relayed, one DevicePaired per handshake
\* completed, and every device a PairingRequest names is listed by
\* get_paired_devices unless unpair_device was called for it
OnePairingRequestPerHandshake ==
    /\ Cardinality({i \in 1..Len(service.tx) : service.tx[i].type = "PairingRequest"})
        = Cardinality({i \in 1..Len(service.seen) : service.seen[i].type = "DevicePaired"})
    /\ \A h \in Conns :
        PairedEventsOf(h) =
            IF IsPairRequest(h) /\ pc[h] = "done" /\ result[h][1].ok THEN 1 ELSE 0
    /\ \A i \in 1..Len(service.tx) :
        service.tx[i].type = "PairingRequest"
        => \/ service.tx[i].device_id \in GetPairedDevices(service)
           \/ service.unpaired[service.tx[i].device_id] # None

\* C34: each completed handshake has exactly one DevicePaired, and each DevicePaired
\* relayed exactly one PairingRequest; the step that sends a PairingRequest takes
\* the DevicePaired of a handshake whose requester it names, id and name, the
\* requester is in the server's table before the step and in the service's table
\* after it; and whenever a PairingRequest is on the channel, get_paired_devices
\* lists its device unless unpair_device was called for it.
C34_PairingRequestAfterBothInserts ==
    [][/\ OnePairingRequestPerHandshake'
       /\ (/\ Len(service'.tx) = Len(service.tx) + 1
           /\ service'.tx[Len(service'.tx)].type = "PairingRequest")
          => Bind(service'.tx[Len(service'.tx)], LAMBDA request :
                /\ tx # <<>> /\ tx' = Tail(tx)
                /\ Head(tx).type = "DevicePaired"
                /\ request.device_id = msg[Head(tx).conn][1].device_id
                /\ request.device_name = msg[Head(tx).conn][1].device_name
                /\ sent[Head(tx).conn] = <<PairAcceptOf(Head(tx).conn)>>
                /\ server_devices[request.device_id] # None
                /\ service'.paired_devices[request.device_id] # None
                /\ service'.paired_devices[request.device_id][1].session_key
                     = Head(tx).device.session_key)]_vars

\* C34's case: two handshakes have completed and been relayed, and the channel
\* holds their two PairingRequest events, for two devices that are both listed
C34_Witness ==
    /\ \A h \in Conns : IsPairRequest(h) /\ pc[h] = "done" /\ result[h][1].ok
    /\ tx = <<>>
    /\ Len(service.tx) = 2
    /\ service.tx[1].type = "PairingRequest" /\ service.tx[2].type = "PairingRequest"
    /\ service.tx[1].device_id # service.tx[2].device_id
    /\ GetPairedDevices(service) = DeviceIds

\* how far a handler has come
PcRank(p) ==
    CASE p = "idle" -> 0
      [] p = "read" -> 1
      [] p \in {"take", "lookup"} -> 2
      [] p \in {"restore", "write"} -> 3
      [] p = "insert" -> 4
      [] p = "notify" -> 5
      [] p = "done" -> 6

\* C35: the handler of a connection reads one message and never reads again: it
\* only moves forward, from the read through its one dispatch to its return, the
\* message it read stays the one it dispatched on, it takes a session out of the
\* slot at most once, at most one SyncEvent on the channel is its own, and once it
\* has returned (also after a PairAccept) nothing more is read, written or sent for
\* that connection.
C35_OneMessagePerConnection ==
    [][\A h \in Conns :
        /\ PcRank(pc'[h]) >= PcRank(pc[h])
        /\ pc'[h] # pc[h] => PcRank(pc'[h]) > PcRank(pc[h])
        /\ msg[h] # None => msg'[h] = msg[h]
        /\ msg'[h] # msg[h] => pc[h] = "read"
        /\ (held[h] = None /\ held'[h] # None) => pc[h] = "take"
        /\ Cardinality({i \in 1..Len(tx') : tx'[i].conn = h}) <= 1
        /\ Len(sent'[h]) <= 1
        /\ pc[h] = "done"
            => /\ pc'[h] = "done"
               /\ msg'[h] = msg[h] /\ held'[h] = held[h] /\ sent'[h] = sent[h]
               /\ result'[h] = result[h]
               /\ {i \in 1..Len(tx') : tx'[i].conn = h} = {i \in 1..Len(tx) : tx[i].conn = h}]_vars

\* C35's case: a handler answered a PairRequest with a PairAccept, sent its one
\* DevicePaired and returned, and the other handler ran after that
C35_Witness ==
    \E g, h \in Conns :
        /\ g # h
        /\ pc[h] = "done" /\ IsPairRequest(h) /\ result[h][1].ok
        /\ Len(sent[h]) = 1
        /\ Cardinality(EventsOf(h)) = 1
        /\ pc[g] = "done" /\ msg[g] # None /\ msg[g][1].type = "ClipboardSync"
        /\ Cardinality(EventsOf(g)) = 1
        /\ tx[1].conn = h

\* C36: two different contents never feed the digest the same bytes, and so never
\* have the same hash.
C36_DigestInputInjective ==
    (mr.stage = "hashed" /\ mr.a # mr.b)
    => /\ mr.fed_a # mr.fed_b
       /\ mr.hash1 # mr.hash_b

\* the handler of h has read a PairRequest whose session id is that of the session
\* in the slot
CarriesActiveSession(h) ==
    /\ pc[h] = "take"
    /\ active_pairing # None
    /\ active_pairing[1].session_id = msg[h][1].session_id

\* start_pairing is called once, no other connection carries the session id h
\* carries, and the write of h does not fail
Undisturbed(h) ==
    /\ sessions_created <= 1
    /\ \A g \in Conns \ {h} :
        (IsPairRequest(g) /\ IsPairRequest(h)) => msg[g][1].session_id # msg[h][1].session_id
    /\ result[h] # Some(Err("Network", "write failed"))

\* the handshake of h is through: PairAccept written, the requester in both tables,
\* its PairingRequest on the ServiceEvent channel
HandshakeThrough(h) ==
    /\ IsPairRequest(h) /\ held[h] # None
    /\ sent[h] = <<PairAcceptOf(h)>>
    /\ server_devices[msg[h][1].device_id] # None
    /\ service.paired_devices[msg[h][1].device_id] # None
    /\ \E i \in 1..Len(service.tx) :
        /\ service.tx[i].type = "PairingRequest"
        /\ service.tx[i].device_id = msg[h][1].device_id

\* C37: under fair scheduling, in every run in which start_pairing is called once,
\* no other connection carries the same session id and the connection stays
\* writable, a PairRequest read while the session of its id is the active one leads
\* to the PairAccept on its connection, the requester in both tables and its
\* PairingRequest event.
C37_HandshakeLiveness ==
    \A h \in Conns :
        ([]Undisturbed(h)) => [](CarriesActiveSession(h) => <>HandshakeThrough(h))

\* a message, or the kind of the error
KindOf(r) == IF r.ok THEN <<"Ok", r.val>> ELSE <<"Err", r.kind>>

\* C38: whatever was received and sent so far, before or after into_split, the
\* connection has taken as many bytes from its stream as read_framed_message with
\* Message::from_bytes takes, each recv gave the same message or an error of the
\* same kind, and the bytes written are those an unsplit connection writes.
C38_ConnectionImplementsFraming ==
    fr.stage \in {"connection", "split"}
    => LET inbound == IF fr.stage = "split" THEN fr.reader.stream ELSE fr.conn.inbound
           outbound == IF fr.stage = "split" THEN fr.writer.stream ELSE fr.conn.outbound
       IN  /\ inbound = fr.plain.inbound
           /\ Len(fr.received) = Len(fr.plain.received)
           /\ \A i \in 1..Len(fr.received) :
                KindOf(fr.received[i]) = KindOf(fr.plain.received[i])
           /\ outbound = fr.plain.outbound

\* C38's case: a connection received a Ping, was split, and its reader then met a
\* payload that is no message and, after it, the end of the stream; its writer sent
\* a message
C38_Witness ==
    /\ fr.stage = "split"
    /\ Len(fr.received) = 3
    /\ fr.received[1] = Ok([type |-> "Ping", timestamp |-> 1700000000])
    /\ KindOf(fr.received[2]) = <<"Err", "Serialization">>
    /\ KindOf(fr.received[3]) = <<"Err", "Network">>
    /\ fr.reader.stream = <<>>
    /\ fr.sends = 1
    /\ fr.writer.stream # <<>>

\* the turn reported a change
Reported(p) == p.result.ok /\ p.result.val # None

\* the clipboard of the turn held a text that is not empty
NonEmpty(p) == p.os.kind = "text" /\ p.os.text # <<>>

\* the read of the turn failed
ReadFailed(p) == p.os.kind \in {"ClipboardOccupied", "no clipboard"}

\* C39: in every turn check_change reports a change exactly when the clipboard is
\* not empty and the hash of its content is not the recorded one, and then records
\* that hash and returns that content; a failed read reports nothing and leaves the
\* record; an empty clipboard clears it; and between two reports of the same
\* content with no report in between the clipboard was met empty.
C39_CheckChangeReportsOncePerContent ==
    mr.stage = "monitor"
    => /\ \A i \in 1..Len(mr.polls) :
            LET p == mr.polls[i]
                hash == Sha256(TagText \o p.os.text)
            IN  /\ Reported(p) <=> (NonEmpty(p) /\ p.before # Some(hash))
                /\ Reported(p)
                    => /\ p.after = Some(hash)
                       /\ p.result.val = Some([type |-> "Text", text |-> p.os.text])
                /\ ReadFailed(p) => ~p.result.ok /\ p.after = p.before
                /\ (~ReadFailed(p) /\ ~NonEmpty(p)) => p.after = None
                /\ i > 1 => p.before = mr.polls[i - 1].after
       /\ \A i, j \in 1..Len(mr.polls) :
            (/\ i < j
             /\ Reported(mr.polls[i]) /\ Reported(mr.polls[j])
             /\ mr.polls[i].result = mr.polls[j].result
             /\ \A k \in (i + 1)..(j - 1) : ~Reported(mr.polls[k]))
            => \E k \in (i + 1)..(j - 1) :
                ~ReadFailed(mr.polls[k]) /\ ~NonEmpty(mr.polls[k])

\* C39's case: "a" was reported, the next read failed and left the record, the
\* clipboard was then met empty, and "a" was reported once more
C39_Witness ==
    /\ mr.stage = "monitor"
    /\ Len(mr.polls) >= 4
    /\ \E i \in 1..(Len(mr.polls) - 3) :
        /\ Reported(mr.polls[i]) /\ mr.polls[i].os.text = <<97>>
        /\ ReadFailed(mr.polls[i + 1])
        /\ mr.polls[i + 1].after = mr.polls[i].after
        /\ mr.polls[i + 2].os = [kind |-> "text", text |-> <<>>]
        /\ mr.polls[i + 2].after = None
        /\ Reported(mr.polls[i + 3]) /\ mr.polls[i + 3].os.text = <<97>>

====
